---- MODULE Spec2Model ----
(***************************************************************************)
(* The JNI bridge of lib-python/src/kson/__init__.py: per-thread           *)
(* attachment (AttachedJniThread), promotion of local references to        *)
(* garbage-collected global references (_to_gc_global_ref), the release    *)
(* finalizer (_delete_global_ref) and the call helpers (_construct,        *)
(* _access_static_field, _call_method, _jni_class_name, the string         *)
(* conversions).                                                           *)
(*                                                                         *)
(* A Python thread is a stack of frames.  A frame is one activation of a   *)
(* bridge function; its pc is the next helper call it makes.  The host     *)
(* program (the wrappers' callers) starts bridge functions, keeps the      *)
(* returned cdata objects alive and drops them.  A cdata object made by    *)
(* ffi.gc runs _delete_global_ref on the thread that drops its last        *)
(* reference, at the moment it drops it; the cyclic collector drops        *)
(* references of the host program between any two bytecodes of a thread,   *)
(* also inside __enter__ and __exit__.                                     *)
(***************************************************************************)
EXTENDS Integers, Sequences, FiniteSets, TLC

\* ------------------------------------------------------------------ bounds
MaxCd == 3
MaxL == 2
MaxHold == 2

\* the Python threads that use the bridge: the importing thread
Threads == {"main"}

CdIds == 1..MaxCd
GIds == CdIds
LIds == 1..MaxL

\* tls.attached_jni_thread and the env pointers handed out by __enter__:
\* "none" is unset/None, "env" is the JNIEnv of the thread's current
\* attachment, "stale" is a JNIEnv whose attachment has been detached.
EnvNone == "none"
EnvLive == "env"
EnvStale == "stale"

\* cd[c]: FreeCd is an unused slot, NullPtr a cdata holding ffi.NULL,
\* otherwise the global reference the cdata points to.
FreeCd == 0 - 1
NullPtr == 0

\* the errors the bridge raises, as (type: message)
NoError == "none"
AttachError == "RuntimeError: failed to attach JNI thread"
DetachError == "RuntimeError: failed to detach JNI thread"
UnreachableError == "Exception: entered unreachable code"
NullClassNameError == "RuntimeError: entered unreachable code: attempted to obtain class name of null object"

VARIABLES
    attached,   \* [Threads -> BOOLEAN]: the thread is attached to the JVM
    tls,        \* [Threads -> env]: tls.attached_jni_thread
    pending,    \* [Threads -> BOOLEAN]: a Java exception is pending
    ltab,       \* [Threads -> [LIds -> object]]: the thread's local references
    gtab,       \* [GIds -> object]: the JVM's global references
    cd,         \* [CdIds -> FreeCd | NullPtr | GIds]: ffi.gc cdata objects
    host,       \* [CdIds -> 0..MaxHold]: references the host program holds
    stack,      \* [Threads -> Seq(frame)]: the Python call stack
    badCall,    \* a JNI function was called detached or with a stale env
    badRelease, \* DeleteGlobalRef was called on a reference that is not live
    lost        \* global references whose finalizer failed before deleting

vars == <<attached, tls, pending, ltab, gtab, cd, host, stack,
          badCall, badRelease, lost>>

\* The parts of the package built on or around the bridge (dispatchers,
\* conversions, library resolution) are functions of their arguments and of
\* what the embedded runtime answers.  Each is run in a field of sub, a
\* record with the inputs, the position (pc) and the outcome; every field
\* is Idle while the bridge itself is run.
VARIABLES
    sub         \* [Parts -> record]

Parts == {"downcast", "enum", "string", "list", "map", "eq", "load",
          "teardown", "threads", "flight", "wrap",
          "build", "chars", "native"}

Idle == [pc |-> "idle"]

AllIdle == [p \in Parts |-> Idle]

side == <<sub>>

FreeObj == "free"
ClassObj == "class"
InstObj == "inst"

\* ------------------------------------------------------------ frames
Frame(fn, recv, kind) ==
    [fn |-> fn, pc |-> "enter", entered |-> FALSE, sd |-> FALSE, env |-> EnvNone,
     tok0 |-> EnvNone, na |-> 0, nd |-> 0, afail |-> FALSE,
     held |-> IF recv = 0 THEN {} ELSE {recv},
     recv |-> recv, kind |-> kind, clazz |-> 0, lref |-> 0, lcls |-> 0,
     res |-> 0, g |-> 0, invoked |-> FALSE, thrown |-> FALSE,
     missing |-> FALSE, exc |-> NoError, cause |-> "none"]

Top(t) == stack[t][Len(stack[t])]

SetTop(stk, t, f) == [stk EXCEPT ![t] = [@ EXCEPT ![Len(@)] = f]]

Pop(stk, t) == [stk EXCEPT ![t] = SubSeq(@, 1, Len(@) - 1)]

Busy(t) == stack[t] # <<>>

At(t, pcs) == Busy(t) /\ Top(t).pc \in pcs

\* ------------------------------------------------- reference counting
\* The number of Python references to cdata c: those of the host program
\* plus one for every frame whose variables (arguments, locals, a traceback
\* passing through it) hold it.
RECURSIVE HoldsIn(_, _)
HoldsIn(frames, c) ==
    IF frames = <<>> THEN 0
    ELSE (IF c \in Head(frames).held THEN 1 ELSE 0) + HoldsIn(Tail(frames), c)

RECURSIVE SumHolds(_, _, _)
SumHolds(ts, stk, c) ==
    IF ts = {} THEN 0
    ELSE LET t == CHOOSE x \in ts : TRUE
         IN HoldsIn(stk[t], c) + SumHolds(ts \ {t}, stk, c)

RefCount(c, h, stk) == h[c] + SumHolds(Threads, stk, c)

\* ffi.gc(ptr, _delete_global_ref): when the cdata is collected the
\* destructor _delete_global_ref(ptr) is called, as a new frame on the
\* collecting thread.
FinFrame(ptr) == [Frame("fin", 0, "none") EXCEPT !.g = ptr]

RECURSIVE FinFrames(_, _)
FinFrames(dead, cdt) ==
    IF dead = {} THEN <<>>
    ELSE LET c == CHOOSE x \in dead : \A y \in dead : x >= y
         IN <<FinFrame(cdt[c])>> \o FinFrames(dead \ {c}, cdt)

\* Ends a step of thread t that leaves cdata table cd1, host references
\* host1 and stacks stk1: every cdata nothing refers to any more is
\* collected and its destructor starts on t.
Collect(t, cd1, host1, stk1) ==
    LET dead == {c \in CdIds : cd1[c] # FreeCd /\ RefCount(c, host1, stk1) = 0}
    IN /\ cd' = [c \in CdIds |-> IF c \in dead THEN FreeCd ELSE cd1[c]]
       /\ host' = host1
       /\ stack' = [stk1 EXCEPT ![t] = @ \o FinFrames(dead, cd1)]

\* ------------------------------------------------------ JNI functions
\* A JNI function may be called only by an attached thread, through the env
\* of its attachment.  Any other call is undefined: it is recorded in
\* badCall, and the run either stops there or goes on with one of the
\* outcomes the call has when it is made properly.
EnvOk(t, env) == attached[t] /\ env = EnvLive

FreeLocals(lt) == {l \in LIds : lt[l] = FreeObj}
\* Reference and cdata names are arbitrary: a new global reference and the
\* cdata made for it get the same, lowest unused, name.
FreeSlots(gt, cdt) == {i \in CdIds : gt[i] = FreeObj /\ cdt[i] = FreeCd}

Lowest(S) == CHOOSE x \in S : \A y \in S : x <= y

\* a JNI function returning a new local reference to obj: the reference
NewLocalId(lt) == Lowest(FreeLocals(lt))
NewLocal(lt, obj) == [lt EXCEPT ![NewLocalId(lt)] = obj]

\* env[0].DeleteLocalRef(env, jni_ref): no-op on NULL
DeleteLocalRef(lt, l) == IF l = 0 THEN lt ELSE [lt EXCEPT ![l] = FreeObj]

\* env[0].NewGlobalRef(env, jni_ref): NULL for NULL; a dead local reference
\* is an invalid argument (the call is counted as a bad call by the caller)
NewGlobalRefId(lt, gt, cdt, l) ==
    IF l = 0 \/ lt[l] = FreeObj THEN NullPtr ELSE Lowest(FreeSlots(gt, cdt))

NewGlobalRef(lt, gt, cdt, l) ==
    IF NewGlobalRefId(lt, gt, cdt, l) = NullPtr THEN gt
    ELSE [gt EXCEPT ![NewGlobalRefId(lt, gt, cdt, l)] = lt[l]]

\* (mutation) _to_gc_global_ref that leaves the local reference alone
ToGcGlobalRefKeepsLocal(lt, gt, cdt, l) ==
    [ltab |-> lt, gtab |-> NewGlobalRef(lt, gt, cdt, l),
     cd |-> [cdt EXCEPT ![Lowest(FreeSlots(gt, cdt))] = NewGlobalRefId(lt, gt, cdt, l)],
     c |-> Lowest(FreeSlots(gt, cdt)), ok |-> TRUE]

\* _to_gc_global_ref(env, jni_ref): NewGlobalRef, then _delete_local_ref,
\* then ffi.gc.  Returns the tables after the call and the new cdata c.
ToGcGlobalRef(lt, gt, cdt, l) ==
    LET g == NewGlobalRefId(lt, gt, cdt, l)
        gt1 == NewGlobalRef(lt, gt, cdt, l)
        lt1 == DeleteLocalRef(lt, l)
        c == Lowest(FreeSlots(gt, cdt))
    IN [ltab |-> lt1, gtab |-> gt1, cd |-> [cdt EXCEPT ![c] = g], c |-> c,
        ok |-> (l = 0 \/ lt[l] # FreeObj)]

\* (mutation) _raise_exception_if_any without ExceptionClear
RaiseExceptionIfAnyNoClear(p) ==
    [err |-> IF p THEN UnreachableError ELSE NoError, pending |-> p]

\* _raise_exception_if_any(env): ExceptionCheck; if pending, ExceptionClear
\* and raise.  Returns the error raised and the pending flag afterwards.
RaiseExceptionIfAny(p) ==
    IF p THEN [err |-> UnreachableError, pending |-> FALSE]
    ELSE [err |-> NoError, pending |-> FALSE]

\* (mutation) _raise_if_null that lets a NULL through
RaiseIfNullIgnored(isNull, p) == [err |-> NoError, pending |-> p]

\* _raise_if_null(env, ptr)
RaiseIfNull(isNull, p) ==
    IF isNull
    THEN [err |-> UnreachableError, pending |-> RaiseExceptionIfAny(p).pending]
    ELSE [err |-> NoError, pending |-> p]

\* ------------------------------------------------------- control flow
\* The helper calls each bridge function makes, in order.  __enter__ is two
\* steps, "enter" (the token test and AttachCurrentThread) and "cache" (the
\* assignments to tls.attached_jni_thread and should_detach); __exit__ is
\* two steps, "exit" (DetachCurrentThread) and "clear" (the token reset).
Prog(fn) ==
    CASE fn = "fin" -> <<"enter", "cache", "del", "exit", "clear", "ret">>
      [] fn = "construct" -> <<"enter", "cache", "cls", "mid", "inv", "pin",
                               "exit", "clear", "ret">>
      [] fn = "static" -> <<"enter", "cache", "cls", "fid", "get",
                            "exit", "clear", "ret">>
      [] fn = "call" -> <<"enter", "cache", "cls", "mid", "inv", "retraw", "pin",
                          "exit", "clear", "ret">>
      [] fn = "clsname" -> <<"enter", "cache", "goc", "cls", "mid", "inv", "retraw",
                             "pin", "dlr", "sub", "exit", "clear", "ret">>
      [] fn = "j2p" -> <<"enter", "cache", "chars", "exit", "clear", "ret">>
      [] fn = "p2j" -> <<"enter", "cache", "new", "pin", "exit", "clear", "ret">>

IndexOf(seq, x) == CHOOSE i \in 1..Len(seq) : seq[i] = x

\* (mutation) _call_method that returns the raw result of the invocation
SuccNoPin(f) ==
    LET nxt == Prog(f.fn)[IndexOf(Prog(f.fn), f.pc) + 1]
    IN IF f.fn = "call" /\ nxt = "pin" THEN "exit" ELSE nxt

\* _call_method pins the result only `if jni_call_name == "ObjectMethod"`
Succ(f) ==
    LET nxt == Prog(f.fn)[IndexOf(Prog(f.fn), f.pc) + 1]
    IN IF f.fn = "call" /\ nxt = "pin" /\ f.kind # "ObjectMethod"
       THEN "exit" ELSE nxt

Adv(f) == [f EXCEPT !.pc = Succ(f)]

\* a `raise` inside a `with AttachedJniThread()` body runs __exit__ next
After(f, err, cause) ==
    IF err = NoError THEN Adv(f)
    ELSE [f EXCEPT !.exc = err, !.cause = cause, !.pc = "exit"]

\* A step of the frame on top of t's stack inside its attachment scope:
\* the frame becomes f1, the JNI tables lt1, gt1, cd1, the pending flag p1;
\* ok says the JNI calls of the step were made attached with a live env.
Apply(t, f1, lt1, gt1, cd1, p1, ok) ==
    /\ ltab' = [ltab EXCEPT ![t] = lt1]
    /\ gtab' = gt1
    /\ pending' = [pending EXCEPT ![t] = p1]
    /\ badCall' = (badCall \/ ~ok)
    /\ Collect(t, cd1, host, SetTop(stack, t, f1))
    /\ UNCHANGED <<attached, tls, badRelease, lost>>

\* ------------------------------------------------- AttachedJniThread
\* (mutation) __enter__ that never looks at the cached token
AlreadyAttachedIgnored(t) == FALSE

\* `if getattr(tls, 'attached_jni_thread', None)`
AlreadyAttached(t) == tls[t] # EnvNone

\* (mutation) __enter__ that does not raise when the attach fails
AttachFailedContinues(f) ==
    [Adv(f) EXCEPT !.entered = TRUE, !.na = 1, !.afail = TRUE]

\* `raise RuntimeError("failed to attach JNI thread")`: __enter__ raises, so
\* the `with` statement runs neither its body nor __exit__
AttachFailed(f) ==
    [f EXCEPT !.entered = TRUE, !.na = 1, !.afail = TRUE, !.exc = AttachError,
              !.cause = "attach", !.pc = "ret"]

\* __enter__ up to the return of AttachCurrentThread: with a cached token
\* it returns the token; otherwise it attaches, which gives the env of the
\* thread's attachment (the current one if the thread is attached already)
Enter(t) ==
    /\ At(t, {"enter"})
    /\ LET f == Top(t) IN
       IF AlreadyAttached(t)
       THEN /\ stack' = SetTop(stack, t,
                   [Adv(Adv(f)) EXCEPT !.entered = TRUE, !.env = tls[t],
                                       !.tok0 = tls[t]])
            /\ UNCHANGED attached
       ELSE \E ok \in BOOLEAN :
            IF ok
            THEN /\ attached' = [attached EXCEPT ![t] = TRUE]
                 /\ stack' = SetTop(stack, t,
                        [Adv(f) EXCEPT !.entered = TRUE, !.env = EnvLive, !.na = 1])
            ELSE /\ stack' = SetTop(stack, t, AttachFailed(f))
                 /\ UNCHANGED attached
    /\ UNCHANGED <<tls, pending, ltab, gtab, cd, host, badCall, badRelease, lost>>
    /\ UNCHANGED side

\* __enter__ after the attach: tls.attached_jni_thread = env_ptr[0];
\* self.should_detach = True; return env_ptr[0]
Cache(t) ==
    /\ At(t, {"cache"})
    /\ tls' = [tls EXCEPT ![t] = Top(t).env]
    /\ stack' = SetTop(stack, t, [Adv(Top(t)) EXCEPT !.sd = TRUE])
    /\ UNCHANGED <<attached, pending, ltab, gtab, cd, host, badCall, badRelease, lost>>
    /\ UNCHANGED side

\* `if self.should_detach`
ShouldDetach(f) == f.sd

\* a detach invalidates every copy of the env the thread still holds
Invalidate(frames) ==
    [i \in 1..Len(frames) |->
        IF frames[i].env = EnvLive THEN [frames[i] EXCEPT !.env = EnvStale]
        ELSE frames[i]]

\* __exit__ up to the return of DetachCurrentThread, which frees the
\* thread's local references and its JNIEnv
Exit(t) ==
    /\ At(t, {"exit"})
    /\ LET f == Top(t) IN
       IF ShouldDetach(f)
       THEN \E ok \in BOOLEAN :
            IF ok
            THEN /\ attached' = [attached EXCEPT ![t] = FALSE]
                 /\ ltab' = [ltab EXCEPT ![t] = [l \in LIds |-> FreeObj]]
                 /\ pending' = [pending EXCEPT ![t] = FALSE]
                 /\ tls' = [tls EXCEPT ![t] = IF @ = EnvLive THEN EnvStale ELSE @]
                 /\ stack' = [stack EXCEPT ![t] =
                        Invalidate([@ EXCEPT ![Len(@)] = [Adv(f) EXCEPT !.nd = 1]])]
            ELSE /\ stack' = SetTop(stack, t,
                        [f EXCEPT !.pc = "ret", !.nd = 1, !.exc = DetachError,
                                  !.cause = "detach"])
                 /\ UNCHANGED <<attached, ltab, pending, tls>>
       ELSE /\ stack' = SetTop(stack, t, [f EXCEPT !.pc = "ret"])
            /\ UNCHANGED <<attached, ltab, pending, tls>>
    /\ UNCHANGED <<gtab, cd, host, badCall, badRelease, lost>>
    /\ UNCHANGED side

\* __exit__ after the detach: tls.attached_jni_thread = None
Clear(t) ==
    /\ At(t, {"clear"})
    /\ tls' = [tls EXCEPT ![t] = EnvNone]
    /\ stack' = SetTop(stack, t, Adv(Top(t)))
    /\ UNCHANGED <<attached, pending, ltab, gtab, cd, host, badCall, badRelease, lost>>
    /\ UNCHANGED side

\* _delete_global_ref: the body, env[0].DeleteGlobalRef(env, jni_ref)
DeleteGlobal(t) ==
    /\ At(t, {"del"})
    /\ LET f == Top(t) IN
       /\ gtab' = IF f.g # NullPtr /\ gtab[f.g] # FreeObj
                  THEN [gtab EXCEPT ![f.g] = FreeObj] ELSE gtab
       /\ badRelease' = (badRelease \/ (f.g # NullPtr /\ gtab[f.g] = FreeObj))
       /\ badCall' = (badCall \/ ~EnvOk(t, f.env))
       /\ stack' = SetTop(stack, t, [Adv(f) EXCEPT !.invoked = TRUE])
    /\ UNCHANGED <<attached, tls, pending, ltab, cd, host, lost>>
    /\ UNCHANGED side

\* ------------------------------------------------------- call helpers
\* _get_class(env, class_name): FindClass, _raise_if_null, _to_gc_global_ref.
\* FindClass of an unknown class returns NULL with NoClassDefFoundError
\* pending.
GetClass(t) ==
    /\ At(t, {"cls"})
    /\ \E found \in BOOLEAN :
       LET f == Top(t)
           lt1 == IF found THEN NewLocal(ltab[t], ClassObj) ELSE ltab[t]
           l == IF found THEN NewLocalId(ltab[t]) ELSE 0
           r == RaiseIfNull(~found, ~found)
           pin == ToGcGlobalRef(lt1, gtab, cd, l)
       IN IF r.err # NoError
          THEN Apply(t, After([f EXCEPT !.missing = TRUE], r.err, "symbol"),
                     lt1, gtab, cd, r.pending, EnvOk(t, f.env))
          ELSE Apply(t, [Adv(f) EXCEPT !.clazz = pin.c, !.held = @ \cup {pin.c},
                                       !.missing = ~found],
                     pin.ltab, pin.gtab, pin.cd, r.pending,
                     EnvOk(t, f.env) /\ pin.ok)
    /\ UNCHANGED side

\* _get_method(env, clazz, name, signature): GetMethodID, _raise_if_null.
\* An unknown method gives NULL with NoSuchMethodError pending.
GetMethod(t) ==
    /\ At(t, {"mid"})
    /\ \E found \in BOOLEAN :
       LET f == Top(t)
           r == RaiseIfNull(~found, ~found)
       IN Apply(t, After([f EXCEPT !.missing = ~found], r.err, "symbol"),
                ltab[t], gtab, cd, r.pending, EnvOk(t, f.env))
    /\ UNCHANGED side

\* _access_static_field: GetStaticFieldID, _raise_if_null
GetStaticFieldID(t) ==
    /\ At(t, {"fid"})
    /\ \E found \in BOOLEAN :
       LET f == Top(t)
           r == RaiseIfNull(~found, ~found)
       IN Apply(t, After([f EXCEPT !.missing = ~found], r.err, "symbol"),
                ltab[t], gtab, cd, r.pending, EnvOk(t, f.env))
    /\ UNCHANGED side

\* _access_static_field: field_value = _to_gc_global_ref(env,
\* GetStaticObjectField(...)); _raise_if_null(env, field_value)
GetStaticField(t) ==
    /\ At(t, {"get"})
    /\ \E isNull \in BOOLEAN :
       LET f == Top(t)
           lt1 == IF isNull THEN ltab[t] ELSE NewLocal(ltab[t], InstObj)
           l == IF isNull THEN 0 ELSE NewLocalId(ltab[t])
           pin == ToGcGlobalRef(lt1, gtab, cd, l)
           r == RaiseIfNull(pin.cd[pin.c] = NullPtr, pending[t])
           f1 == [f EXCEPT !.invoked = TRUE, !.res = pin.c, !.held = @ \cup {pin.c}]
       IN Apply(t, After(f1, r.err, "null"), pin.ltab, pin.gtab, pin.cd,
                r.pending, EnvOk(t, f.env) /\ pin.ok)
    /\ UNCHANGED side

\* The native invocation and the check after it.
\* _construct: NewObject(env, clazz, constructor, *args);
\* _call_method_raw: Call<kind>Method(env, jni_ref, method, *args);
\* both followed by _raise_exception_if_any(env).
\* The invoked code either throws (the result is then NULL) or returns; an
\* object-returning method may return null.
Invoke(t) ==
    /\ At(t, {"inv"})
    /\ \E thrown \in BOOLEAN, isNull \in BOOLEAN :
       LET f == Top(t)
           object == f.fn = "construct" \/ f.kind = "ObjectMethod"
           gives == object /\ ~thrown /\ ~isNull
           lt1 == IF gives THEN NewLocal(ltab[t], InstObj) ELSE ltab[t]
           l == IF gives THEN NewLocalId(ltab[t]) ELSE 0
           r == RaiseExceptionIfAny(thrown)
           f1 == [f EXCEPT !.invoked = TRUE, !.lref = l, !.thrown = thrown]
       IN /\ thrown => ~isNull
          /\ (isNull => f.fn = "call" /\ object)
          /\ Apply(t, After(f1, r.err, "thrown"), lt1, gtab, cd,
                   r.pending, EnvOk(t, f.env))
    /\ UNCHANGED side

\* return from _call_method_raw: its local `clazz` goes out of scope
RetRaw(t) ==
    /\ At(t, {"retraw"})
    /\ LET f == Top(t) IN
       Apply(t, [Adv(f) EXCEPT !.held = @ \ {f.clazz}, !.clazz = 0],
             ltab[t], gtab, cd, pending[t], TRUE)
    /\ UNCHANGED side

\* _to_gc_global_ref(env, result) on the result of the invocation
Pin(t) ==
    /\ At(t, {"pin"})
    /\ LET f == Top(t)
           pin == ToGcGlobalRef(ltab[t], gtab, cd, f.lref)
       IN Apply(t, [Adv(f) EXCEPT !.res = pin.c, !.lref = 0, !.held = @ \cup {pin.c}],
                pin.ltab, pin.gtab, pin.cd, pending[t],
                EnvOk(t, f.env) /\ pin.ok)
    /\ UNCHANGED side

\* _jni_class_name: clazz = GetObjectClass(env, jni_ref); _raise_if_null
GetObjectClass(t) ==
    /\ At(t, {"goc"})
    /\ LET f == Top(t)
           r == RaiseIfNull(FALSE, pending[t])
       IN Apply(t, [After(f, r.err, "null") EXCEPT !.lcls = NewLocalId(ltab[t])],
                NewLocal(ltab[t], ClassObj), gtab, cd, r.pending,
                EnvOk(t, f.env))
    /\ UNCHANGED side

\* _jni_class_name: _delete_local_ref(env, clazz)
DeleteLocal(t) ==
    /\ At(t, {"dlr"})
    /\ LET f == Top(t) IN
       Apply(t, [Adv(f) EXCEPT !.lcls = 0], DeleteLocalRef(ltab[t], f.lcls),
             gtab, cd, pending[t], EnvOk(t, f.env))
    /\ UNCHANGED side

\* _jni_class_name: return _java_string_to_python_str(name)
CallSub(t) ==
    /\ At(t, {"sub"})
    /\ LET f == Top(t) IN
       /\ stack' = [stack EXCEPT ![t] =
              [@ EXCEPT ![Len(@)] = Adv(f)] \o <<Frame("j2p", f.res, "none")>>]
    /\ UNCHANGED <<attached, tls, pending, ltab, gtab, cd, host,
                   badCall, badRelease, lost>>
    /\ UNCHANGED side

\* _python_str_to_java_string: NewString, _raise_if_null
NewString(t) ==
    /\ At(t, {"new"})
    /\ \E isNull \in BOOLEAN :
       LET f == Top(t)
           lt1 == IF isNull THEN ltab[t] ELSE NewLocal(ltab[t], InstObj)
           l == IF isNull THEN 0 ELSE NewLocalId(ltab[t])
           r == RaiseIfNull(isNull, isNull)
       IN Apply(t, [After(f, r.err, "null") EXCEPT !.lref = l], lt1, gtab, cd,
                r.pending, EnvOk(t, f.env))
    /\ UNCHANGED side

\* _java_string_to_python_str: GetStringChars, _raise_if_null,
\* GetStringLength, decode, ReleaseStringChars
StringChars(t) ==
    /\ At(t, {"chars"})
    /\ \E isNull \in BOOLEAN :
       LET f == Top(t)
           r == RaiseIfNull(isNull, isNull)
       IN Apply(t, After(f, r.err, "null"), ltab[t], gtab, cd, r.pending,
                EnvOk(t, f.env))
    /\ UNCHANGED side

\* ------------------------------------------------------------ returns
\* what the function hands to its caller when it returns normally:
\* _construct, _access_static_field, _python_str_to_java_string and an
\* object-returning _call_method return the pinned cdata; a downcast
\* (_jni_class_name, then _from_kotlin_object) stores the cdata it was given
\* in the new wrapper's _jni_ref.
ReturnsObject(f) ==
    \/ f.fn \in {"construct", "static", "p2j", "clsname"}
    \/ f.fn = "call" /\ f.kind = "ObjectMethod"

Returned(f) ==
    IF f.exc # NoError \/ ~ReturnsObject(f) THEN 0
    ELSE IF f.fn = "clsname" THEN f.recv
    ELSE f.res

\* (mutation) a wrapper that registers its own finalizer for the reference
FromKotlinObjectGc(cdt, gt, c) ==
    IF c = 0 \/ FreeSlots(gt, cdt) = {} THEN [cd |-> cdt, c |-> c]
    ELSE [cd |-> [cdt EXCEPT ![Lowest(FreeSlots(gt, cdt))] = cdt[c]],
          c |-> Lowest(FreeSlots(gt, cdt))]

\* _from_kotlin_object(python_class, jni_ref): obj._jni_ref = jni_ref.  The
\* wrapper refers to the very cdata it was given; no cdata is made.
FromKotlinObject(cdt, gt, c) == [cd |-> cdt, c |-> c]

\* The frame on top of t's stack returns or propagates its exception.
\* An exception raised by a destructor is printed and dropped; an exception
\* of a bridge function travels to the caller, whose traceback keeps the
\* frame's variables alive until the host program has handled it.
Return(t) ==
    /\ At(t, {"ret"})
    /\ LET f == Top(t)
           n == Len(stack[t])
           rest == Pop(stack, t)
       IN IF f.fn = "fin"
          THEN /\ lost' = IF f.exc # NoError /\ ~f.invoked /\ f.g # NullPtr
                          THEN lost \cup {f.g} ELSE lost
               /\ stack' = rest
               /\ UNCHANGED <<cd, host>>
          ELSE IF n > 1
          THEN LET caller == stack[t][n - 1]
                   caller1 == IF f.exc = NoError THEN caller
                              ELSE [caller EXCEPT !.exc = f.exc, !.cause = f.cause,
                                                  !.held = @ \cup f.held,
                                                  !.pc = "exit"]
               IN /\ Collect(t, cd, host, SetTop(rest, t, caller1))
                  /\ UNCHANGED lost
          ELSE LET w == FromKotlinObject(cd, gtab, Returned(f))
               IN /\ Collect(t, w.cd,
                         IF Returned(f) = 0 THEN host
                         ELSE [host EXCEPT ![w.c] = @ + 1],
                         rest)
                  /\ UNCHANGED lost
    /\ UNCHANGED <<attached, tls, pending, ltab, gtab, badCall, badRelease>>
    /\ UNCHANGED side

\* --------------------------------------------------- the host program
HostHeld == {c \in CdIds : host[c] > 0}

\* The host program runs the bridge functions one at a time.  A bridge
\* function needs two unused reference names and two unused local reference
\* names (it pins at most a class handle and a result at a time).
Room(t) ==
    /\ ~Busy(t)
    /\ \E i, j \in FreeSlots(gtab, cd) : i # j
    /\ \E i, j \in FreeLocals(ltab[t]) : i # j

Begin(t, f) ==
    /\ stack' = [stack EXCEPT ![t] = <<f>>]
    /\ UNCHANGED <<attached, tls, pending, ltab, gtab, cd, host,
                   badCall, badRelease, lost>>

\* a wrapper's __init__: self._jni_ref = _construct(class, signature, args)
StartConstruct(t) ==
    /\ Room(t)
    /\ \E arg \in {0} \cup HostHeld : Begin(t, Frame("construct", arg, "none"))
    /\ UNCHANGED side

\* _access_static_field (Kson.INSTANCE, an enum constant)
StartStatic(t) ==
    /\ Room(t)
    /\ Begin(t, Frame("static", 0, "none"))
    /\ UNCHANGED side

\* a wrapper method: _call_method(class, self._jni_ref, name, signature, kind, args)
StartCall(t) ==
    /\ Room(t)
    /\ \E c \in HostHeld, kind \in {"ObjectMethod", "IntMethod"} :
       /\ cd[c] # NullPtr
       /\ Begin(t, Frame("call", c, kind))
    /\ UNCHANGED side

\* X._downcast(jni_ref): _jni_class_name(jni_ref), which raises before
\* attaching when jni_ref is NULL, then _from_kotlin_object
StartDowncast(t) ==
    /\ Room(t)
    /\ \E c \in HostHeld :
       /\ host[c] < MaxHold
       /\ Begin(t, IF cd[c] = NullPtr
                   THEN [Frame("clsname", c, "ObjectMethod") EXCEPT
                            !.pc = "ret", !.exc = NullClassNameError,
                            !.cause = "null"]
                   ELSE Frame("clsname", c, "ObjectMethod"))
    /\ UNCHANGED side

\* _python_str_to_java_string(s)
StartP2J(t) ==
    /\ Room(t)
    /\ Begin(t, Frame("p2j", 0, "none"))
    /\ UNCHANGED side

\* _java_string_to_python_str(jni_ref)
StartJ2P(t) ==
    /\ Room(t)
    /\ \E c \in HostHeld :
       /\ cd[c] # NullPtr
       /\ Begin(t, Frame("j2p", c, "none"))
    /\ UNCHANGED side

\* the host program copies a reference to a wrapper (or to its _jni_ref)
Share(t) ==
    /\ ~Busy(t)
    /\ \E c \in HostHeld :
       /\ host[c] < MaxHold
       /\ host' = [host EXCEPT ![c] = @ + 1]
    /\ UNCHANGED <<attached, tls, pending, ltab, gtab, cd, stack,
                   badCall, badRelease, lost>>
    /\ UNCHANGED side

\* Thread t drops one of the host program's references: by running host
\* code when it is idle, or, inside a bridge function, when the cyclic
\* collector runs and finds a wrapper of the host program unreachable.  A
\* collection before a function's first or after its last bytecode is a
\* collection in its caller.
Drop(t) ==
    /\ Busy(t) => Top(t).pc \notin {"enter", "ret"}
    /\ \E c \in HostHeld : Collect(t, cd, [host EXCEPT ![c] = @ - 1], stack)
    /\ UNCHANGED <<attached, tls, pending, ltab, gtab,
                   badCall, badRelease, lost>>
    /\ UNCHANGED side

\* ------------------------------------------------------ specification
\* JNI_CreateJavaVM leaves the importing thread attached, with its JNIEnv in
\* the module's env_ptr; tls.attached_jni_thread is not set by the import.
InitBridge ==
    /\ attached = [t \in Threads |-> t = "main"]
    /\ tls = [t \in Threads |-> EnvNone]
    /\ pending = [t \in Threads |-> FALSE]
    /\ ltab = [t \in Threads |-> [l \in LIds |-> FreeObj]]
    /\ gtab = [g \in GIds |-> FreeObj]
    /\ cd = [c \in CdIds |-> FreeCd]
    /\ host = [c \in CdIds |-> 0]
    /\ stack = [t \in Threads |-> <<>>]
    /\ badCall = FALSE
    /\ badRelease = FALSE
    /\ lost = {}

Init ==
    /\ InitBridge
    /\ sub = AllIdle

Next ==
    \E t \in Threads :
        \/ StartConstruct(t)
        \/ StartStatic(t)
        \/ StartCall(t)
        \/ StartDowncast(t)
        \/ StartP2J(t)
        \/ StartJ2P(t)
        \/ Share(t)
        \/ Drop(t)
        \/ Enter(t)
        \/ Cache(t)
        \/ GetClass(t)
        \/ GetMethod(t)
        \/ GetStaticFieldID(t)
        \/ GetStaticField(t)
        \/ Invoke(t)
        \/ RetRaw(t)
        \/ Pin(t)
        \/ GetObjectClass(t)
        \/ DeleteLocal(t)
        \/ CallSub(t)
        \/ NewString(t)
        \/ StringChars(t)
        \/ DeleteGlobal(t)
        \/ Exit(t)
        \/ Clear(t)
        \/ Return(t)

Spec == Init /\ [][Next]_vars

\* ------------------------------------------------- _downcast (dispatch)
\* A class of package org.kson.api is named by the path of its simple
\* names: <<"Result", "Failure">> is org/kson/api/Result$Failure in a JNI
\* call and org.kson.api.Result$Failure as the result of Class.getName().
ApiPkg == "org.kson.api"

ClassName(pkg, path) == [pkg |-> pkg, path |-> path]

\* The host subclasses of the sealed hierarchies: the class, its base class
\* and the embedded class its constructor and methods name in their JNI
\* calls (<<>> for _KsonValue_KsonNumber, which names none).
HostClasses ==
    {[cls |-> "_SchemaResult_Success", base |-> "SchemaResult",
      embedded |-> <<"SchemaResult", "Success">>],
     [cls |-> "_SchemaResult_Failure", base |-> "SchemaResult",
      embedded |-> <<"SchemaResult", "Failure">>],
     [cls |-> "_IndentType_Spaces", base |-> "IndentType",
      embedded |-> <<"IndentType", "Spaces">>],
     [cls |-> "_IndentType_Tabs", base |-> "IndentType",
      embedded |-> <<"IndentType", "Tabs">>],
     [cls |-> "_KsonValue_KsonObject", base |-> "KsonValue",
      embedded |-> <<"KsonValue", "KsonObject">>],
     [cls |-> "_KsonValue_KsonArray", base |-> "KsonValue",
      embedded |-> <<"KsonValue", "KsonArray">>],
     [cls |-> "_KsonValue_KsonString", base |-> "KsonValue",
      embedded |-> <<"KsonValue", "KsonString">>],
     [cls |-> "_KsonValue_KsonNumber", base |-> "KsonValue",
      embedded |-> <<>>],
     [cls |-> "_KsonValue_KsonNumber_Integer", base |-> "_KsonValue_KsonNumber",
      embedded |-> <<"KsonValue", "KsonNumber", "Integer">>],
     [cls |-> "_KsonValue_KsonNumber_Decimal", base |-> "_KsonValue_KsonNumber",
      embedded |-> <<"KsonValue", "KsonNumber", "Decimal">>],
     [cls |-> "_KsonValue_KsonBoolean", base |-> "KsonValue",
      embedded |-> <<"KsonValue", "KsonBoolean">>],
     [cls |-> "_KsonValue_KsonNull", base |-> "KsonValue",
      embedded |-> <<"KsonValue", "KsonNull">>],
     [cls |-> "_KsonValue_KsonEmbed", base |-> "KsonValue",
      embedded |-> <<"KsonValue", "KsonEmbed">>],
     [cls |-> "_TranspileOptions_Json", base |-> "TranspileOptions",
      embedded |-> <<"TranspileOptions", "Json">>],
     [cls |-> "_TranspileOptions_Yaml", base |-> "TranspileOptions",
      embedded |-> <<"TranspileOptions", "Yaml">>],
     [cls |-> "_Result_Success", base |-> "Result",
      embedded |-> <<"Result", "Success">>],
     [cls |-> "_Result_Failure", base |-> "Result",
      embedded |-> <<"Result", "Failure">>]}

\* the classes that define _downcast
Hierarchies ==
    {"SchemaResult", "IndentType", "KsonValue", "_KsonValue_KsonNumber",
     "TranspileOptions", "Result"}

\* the `case` clauses of each _downcast, in order: the class name matched
\* and the host class handed to _from_kotlin_object
DowncastCases(h) ==
    CASE h = "SchemaResult" ->
           << <<ClassName(ApiPkg, <<"SchemaResult", "Success">>), "_SchemaResult_Success">>,
              <<ClassName(ApiPkg, <<"SchemaResult", "Failure">>), "_SchemaResult_Failure">> >>
      [] h = "IndentType" ->
           << <<ClassName(ApiPkg, <<"IndentType", "Spaces">>), "_IndentType_Spaces">>,
              <<ClassName(ApiPkg, <<"IndentType", "Tabs">>), "_IndentType_Tabs">> >>
      [] h = "KsonValue" ->
           << <<ClassName(ApiPkg, <<"KsonValue", "KsonArray">>), "_KsonValue_KsonArray">>,
              <<ClassName(ApiPkg, <<"KsonValue", "KsonNull">>), "_KsonValue_KsonNull">>,
              <<ClassName(ApiPkg, <<"KsonValue", "KsonNumber">>), "_KsonValue_KsonNumber">>,
              <<ClassName(ApiPkg, <<"KsonValue", "KsonObject">>), "_KsonValue_KsonObject">>,
              <<ClassName(ApiPkg, <<"KsonValue", "KsonString">>), "_KsonValue_KsonString">>,
              <<ClassName(ApiPkg, <<"KsonValue", "KsonBoolean">>), "_KsonValue_KsonBoolean">>,
              <<ClassName(ApiPkg, <<"KsonValue", "KsonEmbed">>), "_KsonValue_KsonEmbed">>,
              <<ClassName(ApiPkg, <<"KsonValue", "KsonNumber", "Decimal">>),
                "_KsonValue_KsonNumber_Decimal">>,
              <<ClassName(ApiPkg, <<"KsonValue", "KsonNumber", "Integer">>),
                "_KsonValue_KsonNumber_Integer">> >>
      [] h = "_KsonValue_KsonNumber" ->
           << <<ClassName(ApiPkg, <<"KsonValue", "KsonNumber", "Decimal">>),
                "_KsonValue_KsonNumber_Decimal">>,
              <<ClassName(ApiPkg, <<"KsonValue", "KsonNumber", "Integer">>),
                "_KsonValue_KsonNumber_Integer">> >>
      [] h = "TranspileOptions" ->
           << <<ClassName(ApiPkg, <<"TranspileOptions", "Yaml">>), "_TranspileOptions_Yaml">>,
              <<ClassName(ApiPkg, <<"TranspileOptions", "Json">>), "_TranspileOptions_Json">> >>
      [] h = "Result" ->
           << <<ClassName(ApiPkg, <<"Result", "Failure">>), "_Result_Failure">>,
              <<ClassName(ApiPkg, <<"Result", "Success">>), "_Result_Success">> >>

\* outcomes of a call
Raised(err) == [kind |-> "raise", err |-> err]
ReturnedNone == [kind |-> "none"]
Wrapper(cls, ref) == [kind |-> "wrapper", cls |-> cls, ref |-> ref]

\* (mutation) a match statement whose first clause is a wildcard
MatchCaseWildcard(cases, name) ==
    IF cases = <<>> THEN 0 ELSE 1

\* `match name:` runs the first clause whose pattern equals name (0: none)
MatchCase(cases, name) ==
    LET hits == {i \in 1..Len(cases) : cases[i][1] = name}
    IN IF hits = {} THEN 0 ELSE CHOOSE i \in hits : \A j \in hits : i <= j

\* X._downcast(jni_ref) once _jni_class_name has returned name: the clause
\* that matches returns _from_kotlin_object(cls, jni_ref); when none matches
\* the function body ends, which returns None
Downcast(h, name, ref) ==
    LET i == MatchCase(DowncastCases(h), name)
    IN IF i = 0 THEN ReturnedNone ELSE Wrapper(DowncastCases(h)[i][2], ref)

\* bound: the object references a _downcast is called with are 0..MaxDcRef
MaxDcRef == 2

\* classes the embedded runtime can report that no _downcast lists
OtherClasses ==
    {ClassName("java.lang", <<"Object">>),
     ClassName(ApiPkg, <<"Result">>),
     ClassName(ApiPkg, <<"KsonValue", "KsonNumber", "Rational">>),
     ClassName("org.kson", <<"Result", "Failure">>)}

\* the runtime classes of the objects handed to _downcast
RuntimeClasses ==
    {ClassName(ApiPkg, k.embedded) : k \in {c \in HostClasses : c.embedded # <<>>}}
        \cup {ClassName(ApiPkg, <<"KsonValue", "KsonNumber">>)}
        \cup OtherClasses

Dc == sub.downcast

DcStart(h, obj) ==
    [pc |-> "name", h |-> h, obj |-> obj, name |-> ClassName("", <<>>),
     out |-> ReturnedNone]

InitDowncast ==
    /\ InitBridge
    /\ \E h \in Hierarchies, c \in RuntimeClasses, r \in 0..MaxDcRef :
           sub = [AllIdle EXCEPT !.downcast = DcStart(h, [ref |-> r, class |-> c])]

\* _jni_class_name(jni_ref): NULL raises, otherwise Class.getName() of the
\* object's class
JniClassName ==
    /\ Dc.pc = "name"
    /\ IF Dc.obj.ref = NullPtr
          THEN sub' = [sub EXCEPT !.downcast.pc = "done",
                                  !.downcast.out = Raised(NullClassNameError)]
          ELSE sub' = [sub EXCEPT !.downcast.pc = "match",
                                  !.downcast.name = Dc.obj.class]
    /\ UNCHANGED vars

\* the match statement of X._downcast
DowncastMatch ==
    /\ Dc.pc = "match"
    /\ sub' = [sub EXCEPT !.downcast.pc = "done",
                          !.downcast.out = Downcast(Dc.h, Dc.name, Dc.obj.ref)]
    /\ UNCHANGED vars

NextDowncast ==
    \/ JniClassName
    \/ DowncastMatch

SpecDowncast == InitDowncast /\ [][NextDowncast]_<<vars, side>>

\* ------------------------------------------------------------ enums
HostEnums == {"MessageSeverity", "FormattingStyle", "KsonValueType", "TokenType"}

\* the members of each host Enum class in the order of their values 0, 1, ...
\* (each `case E.X` of _to_kotlin_enum reads the static field named X)
HostMembers(e) ==
    CASE e = "MessageSeverity" ->
           << "ERROR", "WARNING" >>
      [] e = "FormattingStyle" ->
           << "PLAIN", "DELIMITED", "COMPACT", "CLASSIC" >>
      [] e = "KsonValueType" ->
           << "OBJECT", "ARRAY", "STRING", "INTEGER", "DECIMAL", "BOOLEAN",
              "NULL", "EMBED" >>
      [] e = "TokenType" ->
           << "CURLY_BRACE_L", "CURLY_BRACE_R", "SQUARE_BRACKET_L",
              "SQUARE_BRACKET_R", "ANGLE_BRACKET_L", "ANGLE_BRACKET_R",
              "COLON", "DOT", "END_DASH", "COMMA", "COMMENT",
              "EMBED_OPEN_DELIM", "EMBED_CLOSE_DELIM", "EMBED_TAG",
              "EMBED_PREAMBLE_NEWLINE", "EMBED_CONTENT", "FALSE",
              "UNQUOTED_STRING", "ILLEGAL_CHAR", "LIST_DASH", "NULL",
              "NUMBER", "STRING_OPEN_QUOTE", "STRING_CLOSE_QUOTE",
              "STRING_CONTENT", "TRUE", "WHITESPACE", "EOF" >>

\* bound: the embedded enumeration may declare up to MaxEnumExtra members
\* after the ones the host knows
MaxEnumExtra == 1

ExtraNames == <<"EXTRA_1", "EXTRA_2", "EXTRA_3">>

\* the member lists the embedded enumeration may declare: the host's list
\* followed by extra members, its first two members exchanged, or its first
\* member missing
Declarations(e) ==
    LET ms == HostMembers(e)
    IN {ms \o SubSeq(ExtraNames, 1, k) : k \in 0..MaxEnumExtra}
         \cup {<<ms[2], ms[1]>> \o SubSeq(ms, 3, Len(ms)), Tail(ms)}

ValueError == "ValueError"

\* Enum.ordinal() of the embedded constant c
Ordinal(decl, c) == (CHOOSE i \in 1..Len(decl) : decl[i] = c) - 1

\* (mutation) E(index) that counts the members from one
EnumByValueFromOne(e, index) ==
    IF index \in 1..Len(HostMembers(e))
      THEN [kind |-> "member", name |-> HostMembers(e)[index]]
      ELSE Raised(ValueError)

\* E(index): the member whose value is index, ValueError when there is none
EnumByValue(e, index) ==
    IF index \in 0..(Len(HostMembers(e)) - 1)
      THEN [kind |-> "member", name |-> HostMembers(e)[index + 1]]
      ELSE Raised(ValueError)

En == sub.enum

\* a run starts with a host member to pass in (m) or with an embedded
\* constant to pass out (c)
InitEnum ==
    /\ InitBridge
    /\ \E e \in HostEnums :
         \E decl \in Declarations(e) :
           \/ \E m \in {HostMembers(e)[i] : i \in 1..Len(HostMembers(e))} :
                sub = [AllIdle EXCEPT !.enum =
                         [pc |-> "to", e |-> e, decl |-> decl, m |-> m, c |-> "",
                          index |-> 0 - 1, out |-> ReturnedNone]]
           \/ \E c \in {decl[i] : i \in 1..Len(decl)} :
                sub = [AllIdle EXCEPT !.enum =
                         [pc |-> "from", e |-> e, decl |-> decl, m |-> "", c |-> c,
                          index |-> 0 - 1, out |-> ReturnedNone]]

\* m._to_kotlin_enum(): the static field of the embedded enumeration that
\* has the member's name; _access_static_field raises when there is none
ToKotlinEnum ==
    /\ En.pc = "to"
    /\ IF \E i \in 1..Len(En.decl) : En.decl[i] = En.m
          THEN sub' = [sub EXCEPT !.enum.pc = "from", !.enum.c = En.m]
          ELSE sub' = [sub EXCEPT !.enum.pc = "done",
                                  !.enum.out = Raised(UnreachableError)]
    /\ UNCHANGED vars

\* E._from_kotlin_enum(jni_ref): E(jni_ref.ordinal())
FromKotlinEnum ==
    /\ En.pc = "from"
    /\ LET index == Ordinal(En.decl, En.c)
       IN sub' = [sub EXCEPT !.enum.pc = "done", !.enum.index = index,
                             !.enum.out = EnumByValue(En.e, index)]
    /\ UNCHANGED vars

NextEnum ==
    \/ ToKotlinEnum
    \/ FromKotlinEnum

SpecEnum == InitEnum /\ [][NextEnum]_<<vars, side>>

\* ---------------------------------------------------------- strings
\* bound: host strings have at most MaxStrLen characters
MaxStrLen == 2

\* the characters of the host strings, as code points: NUL, a letter, the
\* last character of the basic plane, the first and the last of the
\* supplementary planes, and a surrogate (no valid character)
CodePoints == {0, 65, 65535, 65536, 1114111, 55296}

\* (mutation) a test that finds no surrogate
IsSurrogateNever(u) == FALSE

IsSurrogate(u) == u \in 55296..57343

HostStrings == UNION {[1..n -> CodePoints] : n \in 0..MaxStrLen}

UnicodeError == "UnicodeError"

\* what the encoder and the decoder below give for a string they reject
\* (no code unit and no character is negative)
Malformed == <<0 - 1>>

\* (mutation) an encoder that keeps the low 16 bits of every character
Ucs2Units(cp) ==
    <<cp % 65536>>

\* the UTF-16 code units of one character
Utf16Units(cp) ==
    IF cp < 65536
      THEN <<cp>>
      ELSE <<55296 + ((cp - 65536) \div 1024), 56320 + ((cp - 65536) % 1024)>>

RECURSIVE EncodeUtf16LE(_)
\* s.encode("utf-16-le"): two bytes per code unit, low byte first; a
\* surrogate cannot be encoded
EncodeUtf16LE(s) ==
    IF s = <<>> THEN <<>>
    ELSE LET us == Utf16Units(Head(s))
             lo == [i \in 1..(2 * Len(us)) |->
                      IF i % 2 = 1 THEN us[(i + 1) \div 2] % 256
                                   ELSE us[i \div 2] \div 256]
             rest == EncodeUtf16LE(Tail(s))
         IN IF IsSurrogate(Head(s)) \/ rest = Malformed
              THEN Malformed
              ELSE lo \o rest

\* the first n jchars of a byte buffer
JChars(bytes, n) == [i \in 1..n |-> bytes[2 * i - 1] + 256 * bytes[2 * i]]

RECURSIVE DecodeUtf16(_)
\* bytes.decode("utf-16-le", "strict") on the code units of the buffer: a
\* high surrogate takes the low surrogate that follows it, any other
\* surrogate is an error
DecodeUtf16(us) ==
    IF us = <<>> THEN <<>>
    ELSE IF ~IsSurrogate(us[1])
      THEN LET rest == DecodeUtf16(Tail(us))
           IN IF rest = Malformed THEN Malformed ELSE <<us[1]>> \o rest
    ELSE IF us[1] < 56320 /\ Len(us) >= 2 /\ us[2] \in 56320..57343
      THEN LET rest == DecodeUtf16(Tail(Tail(us)))
           IN IF rest = Malformed THEN Malformed
              ELSE <<65536 + (us[1] - 55296) * 1024 + (us[2] - 56320)>> \o rest
    ELSE Malformed

St == sub.string

InitString ==
    /\ InitBridge
    /\ \E s \in HostStrings :
         sub = [AllIdle EXCEPT !.string =
                  [pc |-> "encode", s |-> s, utf16_bytes |-> <<>>,
                   utf16_str_len |-> 0, jstr |-> <<>>, chars |-> <<>>,
                   log |-> <<>>, out |-> ReturnedNone]]

\* _python_str_to_java_string up to ffi.new: the bytes and their jchar count
StrEncode ==
    /\ St.pc = "encode"
    /\ LET b == EncodeUtf16LE(St.s)
       IN IF b = Malformed
            THEN sub' = [sub EXCEPT !.string.pc = "done",
                                    !.string.out = Raised(UnicodeError)]
          ELSE IF Len(b) % 2 # 0
            THEN sub' = [sub EXCEPT !.string.pc = "done",
                                    !.string.out = Raised("RuntimeError")]
          ELSE sub' = [sub EXCEPT !.string.pc = "new",
                                  !.string.utf16_bytes = b,
                                  !.string.utf16_str_len = Len(b) \div 2]
    /\ UNCHANGED vars

\* with AttachedJniThread(): NewString(env, utf16_str, utf16_str_len), the
\* embedded string holds the first utf16_str_len jchars of the buffer;
\* _to_gc_global_ref.  St.log lists the calls made to the embedded runtime.
StrNewString ==
    /\ St.pc = "new"
    /\ sub' = [sub EXCEPT !.string.pc = "chars",
                          !.string.log = @ \o <<"AttachCurrentThread",
                              "NewString", "NewGlobalRef", "DeleteLocalRef",
                              "DetachCurrentThread">>,
                          !.string.jstr = JChars(St.utf16_bytes, St.utf16_str_len)]
    /\ UNCHANGED vars

\* _java_string_to_python_str: GetStringChars and the GetStringLength * 2
\* bytes read from it
StrGetChars ==
    /\ St.pc = "chars"
    /\ sub' = [sub EXCEPT !.string.pc = "decode",
                          !.string.log = @ \o <<"AttachCurrentThread",
                              "GetStringChars", "GetStringLength">>,
                          !.string.chars =
                              [i \in 1..(Len(St.jstr) * 2) |->
                                 IF i % 2 = 1 THEN St.jstr[(i + 1) \div 2] % 256
                                              ELSE St.jstr[i \div 2] \div 256]]
    /\ UNCHANGED vars

StrDecode ==
    /\ St.pc = "decode"
    /\ LET d == DecodeUtf16(JChars(St.chars, Len(St.chars) \div 2))
       IN sub' = [sub EXCEPT !.string.pc = "done",
                             !.string.log = @ \o
                                 IF d = Malformed
                                   THEN <<"DetachCurrentThread">>
                                   ELSE <<"ReleaseStringChars",
                                          "DetachCurrentThread">>,
                             !.string.out = IF d = Malformed
                                              THEN Raised(UnicodeError)
                                              ELSE [kind |-> "str", s |-> d]]
    /\ UNCHANGED vars

NextString ==
    \/ StrEncode
    \/ StrNewString
    \/ StrGetChars
    \/ StrDecode

SpecString == InitString /\ [][NextString]_<<vars, side>>

\* ------------------------------------------------------------- lists
\* bounds: embedded objects are 1..MaxObj, host lists have at most
\* MaxListLen items
MaxObj == 2
MaxListLen == 3

\* a host list item: a wrapper whose _jni_ref refers to the embedded object
\* o (1..MaxObj), or an item without a _jni_ref attribute (0)
NoJniRef == 0

HostLists == UNION {[1..n -> 0..MaxObj] : n \in 0..MaxListLen}

TypeError == "TypeError"

Li == sub.list

InitList ==
    /\ InitBridge
    /\ \E l \in HostLists :
         sub = [AllIdle EXCEPT !.list =
                  [pc |-> "new", list |-> l, array_list |-> <<>>, i |-> 1,
                   iterator |-> 0, hasNext |-> 0, next |-> 0,
                   python_list |-> <<>>, out |-> ReturnedNone]]

\* _to_kotlin_list: NewObject of java/util/ArrayList
ListNew ==
    /\ Li.pc = "new"
    /\ sub' = [sub EXCEPT !.list.pc = "add", !.list.array_list = <<>>]
    /\ UNCHANGED vars

\* one turn of `for item in list`: TypeError for an item without _jni_ref,
\* otherwise ArrayList.add(item._jni_ref); after the last item the list is
\* returned and handed to _from_kotlin_list
ListAdd ==
    /\ Li.pc = "add"
    /\ IF Li.i > Len(Li.list)
          THEN sub' = [sub EXCEPT !.list.pc = "iterator"]
        ELSE IF Li.list[Li.i] = NoJniRef
          THEN sub' = [sub EXCEPT !.list.pc = "done",
                                  !.list.out = Raised(TypeError)]
        ELSE sub' = [sub EXCEPT !.list.i = Li.i + 1,
                                !.list.array_list =
                                    Append(Li.array_list, Li.list[Li.i])]
    /\ UNCHANGED vars

\* _from_kotlin_list: List.iterator()
ListIterator ==
    /\ Li.pc = "iterator"
    /\ sub' = [sub EXCEPT !.list.pc = "hasNext", !.list.iterator = 0]
    /\ UNCHANGED vars

\* Iterator.hasNext(); `if has_next == 0: break` returns python_list
ListHasNext ==
    /\ Li.pc = "hasNext"
    /\ IF Li.iterator < Len(Li.array_list)
          THEN sub' = [sub EXCEPT !.list.pc = "next",
                                  !.list.hasNext = Li.hasNext + 1]
          ELSE sub' = [sub EXCEPT !.list.pc = "done",
                                  !.list.hasNext = Li.hasNext + 1,
                                  !.list.out = [kind |-> "list",
                                                items |-> Li.python_list]]
    /\ UNCHANGED vars

\* (mutation) an iterator that walks the list from its end
IteratorNextReversed(elems, pos) == elems[Len(elems) - pos]

\* Iterator.next() of an iterator that has returned pos elements
IteratorNext(elems, pos) == elems[pos + 1]

\* python_list.append(wrap_item_fn(iterator.next()))
ListNext ==
    /\ Li.pc = "next"
    /\ sub' = [sub EXCEPT !.list.pc = "hasNext",
                          !.list.iterator = Li.iterator + 1,
                          !.list.next = Li.next + 1,
                          !.list.python_list =
                              Append(Li.python_list,
                                     IteratorNext(Li.array_list, Li.iterator))]
    /\ UNCHANGED vars

NextList ==
    \/ ListNew
    \/ ListAdd
    \/ ListIterator
    \/ ListHasNext
    \/ ListNext

SpecList == InitList /\ [][NextList]_<<vars, side>>

\* -------------------------------------------------------------- maps
\* the keys of the host dictionaries: the empty string, a letter, NUL
\* followed by a supplementary character, and a lone surrogate
MapKeys == {<<>>, <<65>>, <<0, 65536>>, <<55296>>}

\* host dictionaries: string keys, values as the items of a host list
HostDicts == UNION {[ks -> 0..MaxObj] : ks \in SUBSET MapKeys}

\* (mutation) a put that drops the entries already made
HashMapPutAlone(m, k, v) ==
    [x \in {k} |-> v]

\* HashMap.put(k, v)
HashMapPut(m, k, v) ==
    [x \in DOMAIN m \cup {k} |-> IF x = k THEN v ELSE m[x]]

Mp == sub.map

InitMap ==
    /\ InitBridge
    /\ \E d \in HostDicts :
         sub = [AllIdle EXCEPT !.map =
                  [pc |-> "new", items |-> d, todo |-> DOMAIN d, map |-> <<>>,
                   visited |-> {}, next |-> 0, python_dict |-> <<>>,
                   out |-> ReturnedNone]]

\* _to_kotlin_map: NewObject of java/util/HashMap
MapNew ==
    /\ Mp.pc = "new"
    /\ sub' = [sub EXCEPT !.map.pc = "put", !.map.map = <<>>]
    /\ UNCHANGED vars

\* one turn of `for key, value in items.items()` (the dictionary's order is
\* any order): _get_jni_ref(key) makes the embedded string of the key,
\* _get_jni_ref(value) raises TypeError for a value without _jni_ref, and
\* put enters the pair; after the last item the map is returned and handed
\* to _from_kotlin_map
MapPut ==
    /\ Mp.pc = "put"
    /\ IF Mp.todo = {}
          THEN sub' = [sub EXCEPT !.map.pc = "hasNext"]
          ELSE \E key \in Mp.todo :
                 LET b == EncodeUtf16LE(key)
                 IN IF b = Malformed
                      THEN sub' = [sub EXCEPT !.map.pc = "done",
                                              !.map.out = Raised(UnicodeError)]
                    ELSE IF Mp.items[key] = NoJniRef
                      THEN sub' = [sub EXCEPT !.map.pc = "done",
                                              !.map.out = Raised(TypeError)]
                    ELSE sub' = [sub EXCEPT
                                   !.map.todo = Mp.todo \ {key},
                                   !.map.map =
                                       HashMapPut(Mp.map,
                                                  JChars(b, Len(b) \div 2),
                                                  Mp.items[key])]
    /\ UNCHANGED vars

\* _from_kotlin_map: hasNext() of the entry-set iterator
MapHasNext ==
    /\ Mp.pc = "hasNext"
    /\ IF Mp.visited # DOMAIN Mp.map
          THEN sub' = [sub EXCEPT !.map.pc = "next"]
          ELSE sub' = [sub EXCEPT !.map.pc = "done",
                                  !.map.out = [kind |-> "dict",
                                               items |-> Mp.python_dict]]
    /\ UNCHANGED vars

\* next() returns an entry not yet returned (a HashMap iterates in any
\* order); python_dict[wrap_key_fn(getKey())] = wrap_value_fn(getValue())
MapNext ==
    /\ Mp.pc = "next"
    /\ \E k \in DOMAIN Mp.map \ Mp.visited :
         LET key == DecodeUtf16(k)
         IN IF key = Malformed
              THEN sub' = [sub EXCEPT !.map.pc = "done",
                                      !.map.out = Raised(UnicodeError)]
              ELSE sub' = [sub EXCEPT !.map.pc = "hasNext",
                                      !.map.visited = Mp.visited \cup {k},
                                      !.map.next = Mp.next + 1,
                                      !.map.python_dict =
                                          HashMapPut(Mp.python_dict, key,
                                                     Mp.map[k])]
    /\ UNCHANGED vars

NextMap ==
    \/ MapNew
    \/ MapPut
    \/ MapHasNext
    \/ MapNext

SpecMap == InitMap /\ [][NextMap]_<<vars, side>>

\* --------------------------------------------------- __eq__, __hash__
\* the hashCode values of the embedded objects (jint): the least and the
\* greatest, and the values around zero
HashCodes == {0 - 2147483647 - 1, 0 - 2, 0 - 1, 0, 1, 2147483647}

\* an embedded object: its identity and its value; equals compares the
\* values and hashCode is computed from the value
EmbObjects == [id : 1..MaxObj, val : HashCodes]

Equals(o1, o2) == o1.val = o2.val

HashCode(o) == o.val

\* the host wrapper objects: py is the host object's identity
HostWrappers == [py : {1, 2}, ref : EmbObjects]

\* (mutation) object.__eq__: identity of the host objects
WrapperEqIdentity(a, b) ==
    IF a.py = b.py THEN 1 ELSE 0

\* a.__eq__(b): CallBooleanMethod of java/lang/Object.equals on a._jni_ref
\* with b._jni_ref, a jboolean
WrapperEq(a, b) ==
    IF Equals(a.ref, b.ref) THEN 1 ELSE 0

\* a.__hash__(): CallIntMethod of java/lang/Object.hashCode
WrapperHash(a) == HashCode(a.ref)

\* hash(a) for a __hash__ that returned h: the interpreter reserves -1 for
\* errors and reports it as -2
PyHash(h) == IF h = 0 - 1 THEN 0 - 2 ELSE h

Eq == sub.eq

\* two wrappers; one host object has one reference
InitEq ==
    /\ InitBridge
    /\ \E a \in HostWrappers, b \in HostWrappers :
         /\ a.py = b.py => a.ref = b.ref
         /\ sub = [AllIdle EXCEPT !.eq =
                      [pc |-> "eq", a |-> a, b |-> b, eq |-> 0,
                       hash_a |-> 0, hash_b |-> 0]]

\* a == b
EqCall ==
    /\ Eq.pc = "eq"
    /\ sub' = [sub EXCEPT !.eq.pc = "hash", !.eq.eq = WrapperEq(Eq.a, Eq.b)]
    /\ UNCHANGED vars

\* hash(a), hash(b)
HashCall ==
    /\ Eq.pc = "hash"
    /\ sub' = [sub EXCEPT !.eq.pc = "done",
                          !.eq.hash_a = PyHash(WrapperHash(Eq.a)),
                          !.eq.hash_b = PyHash(WrapperHash(Eq.b))]
    /\ UNCHANGED vars

NextEq ==
    \/ EqCall
    \/ HashCall

SpecEq == InitEq /\ [][NextEq]_<<vars, side>>

\* ------------------------------------------- native library resolution
\* values of sys.platform: the three listed ones and some that are not
Platforms ==
    {"win32", "darwin", "linux", "freebsd", "cygwin", "linux2", "Linux", ""}

LIBRARY_NAMES ==
    [win32 |-> "kson.dll", darwin |-> "libkson.dylib", linux |-> "libkson.so"]

PLATFORM_NATIVE_LIBRARIES ==
    [win32 |-> "kson.dll", darwin |-> "libkson.dylib", linux |-> "libkson.so"]

None == "None"

\* (mutation) a lookup that falls back to the linux name
DictGetDefault(table, key) ==
    IF key \in DOMAIN table THEN table[key] ELSE "libkson.so"

\* table.get(key)
DictGet(table, key) ==
    IF key \in DOMAIN table THEN table[key] ELSE None

UnsupportedPlatform(platform) ==
    Raised(<<"RuntimeError", "Unsupported platform: ", platform>>)

Ld == sub.load

\* the import of the package (with the header and the library file present
\* or not, and a JNI_CreateJavaVM that succeeds or not), or a call of
\* _platform_native_library in the build backend
InitLoad ==
    /\ InitBridge
    /\ \E platform \in Platforms :
         \/ \E header \in BOOLEAN, file \in BOOLEAN, jvm \in BOOLEAN :
              sub = [AllIdle EXCEPT !.load =
                       [pc |-> "header", where |-> "import",
                        platform |-> platform, header |-> header,
                        file |-> file, jvm |-> jvm, lib_name |-> None,
                        lib |-> None, out |-> ReturnedNone]]
         \/ sub = [AllIdle EXCEPT !.load =
                      [pc |-> "resolve", where |-> "build",
                       platform |-> platform, header |-> TRUE, file |-> TRUE,
                       jvm |-> TRUE, lib_name |-> None, lib |-> None,
                       out |-> ReturnedNone]]

\* open(package_dir / "jni_simplified.h") and ffi.cdef(header)
LoadHeader ==
    /\ Ld.pc = "header"
    /\ IF Ld.header
          THEN sub' = [sub EXCEPT !.load.pc = "resolve"]
          ELSE sub' = [sub EXCEPT !.load.pc = "done",
                                  !.load.out = Raised(<<"FileNotFoundError">>)]
    /\ UNCHANGED vars

\* lib_name = LIBRARY_NAMES.get(sys.platform) and the test that follows it;
\* _platform_native_library() in the build backend
ResolveLibrary ==
    /\ Ld.pc = "resolve"
    /\ LET name == IF Ld.where = "import"
                     THEN DictGet(LIBRARY_NAMES, Ld.platform)
                     ELSE DictGet(PLATFORM_NATIVE_LIBRARIES, Ld.platform)
       IN IF name = None
            THEN sub' = [sub EXCEPT !.load.pc = "done",
                                    !.load.out = UnsupportedPlatform(Ld.platform)]
          ELSE IF Ld.where = "import"
            THEN sub' = [sub EXCEPT !.load.pc = "dlopen",
                                    !.load.lib_name = name]
          ELSE sub' = [sub EXCEPT !.load.pc = "done", !.load.lib_name = name,
                                  !.load.out = [kind |-> "str", s |-> name]]
    /\ UNCHANGED vars

\* lib = ffi.dlopen(str(package_dir / lib_name))
Dlopen ==
    /\ Ld.pc = "dlopen"
    /\ IF Ld.file
          THEN sub' = [sub EXCEPT !.load.pc = "jvm", !.load.lib = Ld.lib_name]
          ELSE sub' = [sub EXCEPT !.load.pc = "done",
                                  !.load.out = Raised(<<"OSError">>)]
    /\ UNCHANGED vars

\* lib.JNI_CreateJavaVM(...) != 0 raises; otherwise the import goes on
CreateJavaVM ==
    /\ Ld.pc = "jvm"
    /\ IF Ld.jvm
          THEN sub' = [sub EXCEPT !.load.pc = "done",
                                  !.load.out = [kind |-> "imported"]]
          ELSE sub' = [sub EXCEPT !.load.pc = "done",
                                  !.load.out =
                                      Raised(<<"Exception",
                                               "failed to load kson dynamic library">>)]
    /\ UNCHANGED vars

NextLoad ==
    \/ LoadHeader
    \/ ResolveLibrary
    \/ Dlopen
    \/ CreateJavaVM

SpecLoad == InitLoad /\ [][NextLoad]_<<vars, side>>

\* ---------------------------------------------------------- teardown
\* bound: at teardown up to MaxPinned pinned references are still held by
\* host wrappers
MaxPinned == 2

Td == sub.teardown

\* the state at process teardown: the runtime created at import is alive,
\* the importing thread is attached to it without a cached token, and some
\* wrappers still hold pinned references; the interpreter then finalizes
\* the jvm handle and the wrappers in an order of its own
InitTeardown ==
    /\ InitBridge
    /\ \E n \in 0..MaxPinned, op \in BOOLEAN :
         sub = [AllIdle EXCEPT !.teardown =
                  [pc |-> "collect", jvm |-> "alive", pinned |-> 1..n,
                   op |-> op, cur |-> 0, token |-> FALSE,
                   should_detach |-> FALSE, released |-> {},
                   afterDestroy |-> {}, errors |-> {}]]

\* the finalizer of the jvm handle: lambda x: x[0].DestroyJavaVM(x)
DestroyJavaVM ==
    /\ Td.pc = "collect"
    /\ Td.jvm = "alive"
    /\ sub' = [sub EXCEPT !.teardown.jvm = "destroyed"]
    /\ UNCHANGED vars

\* the finalizer of a pinned reference (_delete_global_ref) starts, or the
\* host calls a bridge operation (_call_method, cur = 0)
TdStart ==
    /\ Td.pc = "collect"
    /\ \/ \E r \in Td.pinned :
            sub' = [sub EXCEPT !.teardown.pc = "enter", !.teardown.cur = r,
                               !.teardown.pinned = Td.pinned \ {r}]
       \/ /\ Td.op
          /\ sub' = [sub EXCEPT !.teardown.pc = "enter", !.teardown.cur = 0,
                                !.teardown.op = FALSE]
    /\ UNCHANGED vars

\* a JNI function called through the handle or an env of a destroyed
\* runtime is recorded; its behaviour is undefined
TdCalls(fn) ==
    IF Td.jvm = "destroyed" THEN Td.afterDestroy \cup {fn} ELSE Td.afterDestroy

\* AttachedJniThread.__enter__: a cached token is returned; otherwise
\* AttachCurrentThread is called with no test of the runtime's state, and
\* on a destroyed runtime the call may return JNI_OK or an error
TdEnter ==
    /\ Td.pc = "enter"
    /\ IF Td.token
          THEN sub' = [sub EXCEPT !.teardown.pc = "body",
                                  !.teardown.should_detach = FALSE]
          ELSE \E ok \in (IF Td.jvm = "alive" THEN {TRUE} ELSE BOOLEAN) :
                 IF ok
                   THEN sub' = [sub EXCEPT !.teardown.pc = "body",
                                           !.teardown.token = TRUE,
                                           !.teardown.should_detach = TRUE,
                                           !.teardown.afterDestroy =
                                               TdCalls("AttachCurrentThread")]
                   ELSE sub' = [sub EXCEPT !.teardown.pc = "collect",
                                           !.teardown.afterDestroy =
                                               TdCalls("AttachCurrentThread"),
                                           !.teardown.errors =
                                               Td.errors \cup {AttachError}]
    /\ UNCHANGED vars

\* the body of the scope: DeleteGlobalRef(env, jni_ref), or the calls of
\* _call_method_raw
TdBody ==
    /\ Td.pc = "body"
    /\ IF Td.cur = 0
          THEN sub' = [sub EXCEPT !.teardown.pc = "exit",
                                  !.teardown.afterDestroy = TdCalls("FindClass")]
          ELSE sub' = [sub EXCEPT !.teardown.pc = "exit",
                                  !.teardown.released =
                                      Td.released \cup {Td.cur},
                                  !.teardown.afterDestroy =
                                      TdCalls("DeleteGlobalRef")]
    /\ UNCHANGED vars

\* AttachedJniThread.__exit__: when should_detach is set,
\* DetachCurrentThread and then the token is cleared; a failed detach
\* raises and leaves the token
TdExit ==
    /\ Td.pc = "exit"
    /\ IF ~Td.should_detach
          THEN sub' = [sub EXCEPT !.teardown.pc = "collect"]
          ELSE \E ok \in (IF Td.jvm = "alive" THEN {TRUE} ELSE BOOLEAN) :
                 sub' = [sub EXCEPT !.teardown.pc = "collect",
                                    !.teardown.token = ~ok,
                                    !.teardown.should_detach = FALSE,
                                    !.teardown.afterDestroy =
                                        TdCalls("DetachCurrentThread"),
                                    !.teardown.errors =
                                        IF ok THEN Td.errors
                                              ELSE Td.errors \cup {DetachError}]
    /\ UNCHANGED vars

NextTeardown ==
    \/ DestroyJavaVM
    \/ TdStart
    \/ TdEnter
    \/ TdBody
    \/ TdExit

SpecTeardown == InitTeardown /\ [][NextTeardown]_<<vars, side>>

\* ------------------------------------------- two threads on the bridge
\* bounds: each thread runs MaxOps bridge operations and starts at most
\* MaxNest scopes inside others (nested calls, destructors run by the
\* collector)
MaxOps == 2
MaxNest == 1

\* the importing thread and a thread started by the host program
TIds == {"main", "worker"}

\* (mutation) a module global instead of a threading.local
TlsSlotShared(t) == "main"

\* tls = threading.local(): every thread has its own attached_jni_thread
TlsSlot(t) == t

Th == sub.threads

InitThreads ==
    /\ InitBridge
    /\ sub = [AllIdle EXCEPT !.threads =
                 [pc |-> "run",
                  tls |-> [t \in TIds |-> FALSE],
                  attached |-> [t \in TIds |-> t = "main"],
                  scopes |-> [t \in TIds |-> <<>>],
                  ops |-> [t \in TIds |-> 0],
                  nests |-> [t \in TIds |-> 0],
                  open |-> [t \in TIds |-> 0]]]

\* a scope: fin tells the scope of a destructor from that of a bridge call
Scope(fin) == [pc |-> "enter", should_detach |-> FALSE, att |-> FALSE,
               fin |-> fin]

ThTop(t) == Th.scopes[t][Len(Th.scopes[t])]

ThAt(t, pc) == Th.scopes[t] # <<>> /\ ThTop(t).pc = pc

\* the scopes of t after its innermost scope has ended: an exception of a
\* bridge call takes the enclosing scope to its __exit__, an exception of a
\* destructor is printed and dropped
ThPop(t, raised) ==
    LET n == Len(Th.scopes[t])
        rest == SubSeq(Th.scopes[t], 1, n - 1)
    IN IF n > 1 /\ raised /\ ~ThTop(t).fin
         THEN [rest EXCEPT ![n - 1].pc = "exit"]
         ELSE rest

\* the operations t has completed once its innermost scope has ended
ThOps(t) == IF Len(Th.scopes[t]) = 1 THEN Th.ops[t] + 1 ELSE Th.ops[t]

\* a bridge operation starts on an idle thread: `with AttachedJniThread()`
ThStart(t) ==
    /\ Th.scopes[t] = <<>>
    /\ Th.ops[t] < MaxOps
    /\ sub' = [sub EXCEPT !.threads.scopes[t] = <<Scope(FALSE)>>]
    /\ UNCHANGED vars

\* a scope starts inside another: a nested bridge call in its body, or a
\* destructor (_delete_global_ref) run by the collector, which may also
\* come between the attach and the caching of the token and between the
\* detach and the clearing of the token
ThNest(t) ==
    /\ Th.scopes[t] # <<>>
    /\ Th.nests[t] < MaxNest
    /\ \E fin \in BOOLEAN :
         /\ ThTop(t).pc \in (IF fin THEN {"cache", "body", "clear"} ELSE {"body"})
         /\ sub' = [sub EXCEPT !.threads.scopes[t] = Append(@, Scope(fin)),
                               !.threads.nests[t] = @ + 1]
    /\ UNCHANGED vars

\* __enter__: the cached token is returned, or AttachCurrentThread is
\* called, which attaches the calling thread or fails
ThEnter(t) ==
    /\ ThAt(t, "enter")
    /\ LET n == Len(Th.scopes[t]) IN
       IF Th.tls[TlsSlot(t)]
         THEN sub' = [sub EXCEPT !.threads.scopes[t][n].pc = "body"]
         ELSE \E ok \in BOOLEAN :
                IF ok
                  THEN sub' = [sub EXCEPT !.threads.scopes[t][n].pc = "cache",
                                          !.threads.scopes[t][n].att = TRUE,
                                          !.threads.attached[t] = TRUE,
                                          !.threads.open[t] = @ + 1]
                  ELSE sub' = [sub EXCEPT !.threads.scopes[t] = ThPop(t, TRUE),
                                          !.threads.ops[t] = ThOps(t)]
    /\ UNCHANGED vars

\* tls.attached_jni_thread = env_ptr[0]; self.should_detach = True
ThCache(t) ==
    /\ ThAt(t, "cache")
    /\ LET n == Len(Th.scopes[t]) IN
       sub' = [sub EXCEPT !.threads.tls[TlsSlot(t)] = TRUE,
                          !.threads.scopes[t][n].should_detach = TRUE,
                          !.threads.scopes[t][n].pc = "body"]
    /\ UNCHANGED vars

\* the body of the scope ends, normally or with an exception
ThBody(t) ==
    /\ ThAt(t, "body")
    /\ sub' = [sub EXCEPT !.threads.scopes[t][Len(Th.scopes[t])].pc = "exit"]
    /\ UNCHANGED vars

\* __exit__: when should_detach is set, DetachCurrentThread, which detaches
\* the calling thread or fails (RuntimeError, the token stays)
ThExit(t) ==
    /\ ThAt(t, "exit")
    /\ LET n == Len(Th.scopes[t]) IN
       IF ~ThTop(t).should_detach
         THEN sub' = [sub EXCEPT !.threads.scopes[t] = ThPop(t, FALSE),
                                 !.threads.ops[t] = ThOps(t)]
         ELSE \E ok \in BOOLEAN :
                IF ok
                  THEN sub' = [sub EXCEPT !.threads.scopes[t][n].pc = "clear",
                                          !.threads.attached[t] = FALSE,
                                          !.threads.open[t] = @ - 1]
                  ELSE sub' = [sub EXCEPT !.threads.scopes[t] = ThPop(t, TRUE),
                                          !.threads.ops[t] = ThOps(t),
                                          !.threads.open[t] = @ - 1]
    /\ UNCHANGED vars

\* tls.attached_jni_thread = None
ThClear(t) ==
    /\ ThAt(t, "clear")
    /\ sub' = [sub EXCEPT !.threads.tls[TlsSlot(t)] = FALSE,
                          !.threads.scopes[t] = ThPop(t, FALSE),
                          !.threads.ops[t] = ThOps(t)]
    /\ UNCHANGED vars

ThStep(t) ==
    \/ ThStart(t)
    \/ ThNest(t)
    \/ ThEnter(t)
    \/ ThCache(t)
    \/ ThBody(t)
    \/ ThExit(t)
    \/ ThClear(t)

NextThreads == \E t \in TIds : ThStep(t)

\* the interpreter lets every runnable thread run again and again
SpecThreads ==
    /\ InitThreads
    /\ [][NextThreads]_<<vars, side>>
    /\ \A t \in TIds : WF_<<vars, side>>(ThStep(t))

\* --------------------------------------- references of calls in flight
\* bounds: MaxRef pinned references, at most MaxArgs object arguments per
\* call
MaxRef == 3
MaxArgs == 1

RefIds == 1..MaxRef

Fl == sub.flight

NoCall == [pc |-> "idle", recv |-> 0, args |-> {}]

\* (mutation) a call whose argument list keeps no reference to the cdata
CallHoldsReceiver(call) ==
    IF call.pc = "idle" THEN {} ELSE {call.recv}

\* the cdata a call refers to while it runs: its parameter jni_ref and the
\* items of its list args
CallHolds(call) ==
    IF call.pc = "idle" THEN {} ELSE {call.recv} \cup call.args

\* the Python references to cdata r: the host program's and those of the
\* calls that hold it
FlRefCount(r, host1, calls1) ==
    host1[r] + Cardinality({t \in TIds : r \in CallHolds(calls1[t])})

\* ffi.gc: a cdata nothing refers to is collected and its destructor
\* _delete_global_ref deletes the global reference
FlCollect(host1, calls1, live1) ==
    sub' = [sub EXCEPT
              !.flight.host = host1,
              !.flight.calls = calls1,
              !.flight.live =
                  [r \in RefIds |-> live1[r] /\ FlRefCount(r, host1, calls1) > 0]]

\* the host program holds wrappers of some pinned references
InitFlight ==
    /\ InitBridge
    /\ \E k \in 1..(MaxRef - 1) :
         sub = [AllIdle EXCEPT !.flight =
                  [pc |-> "run",
                   host |-> [r \in RefIds |-> IF r <= k THEN 1 ELSE 0],
                   live |-> [r \in RefIds |-> r <= k],
                   calls |-> [t \in TIds |-> NoCall]]]

\* a wrapper method starts: it reads self._jni_ref
FlBegin(t) ==
    /\ Fl.calls[t].pc = "idle"
    /\ \E r \in RefIds :
         /\ Fl.host[r] > 0
         /\ FlCollect(Fl.host,
                      [Fl.calls EXCEPT ![t] = [pc |-> "args", recv |-> r,
                                               args |-> {}]],
                      Fl.live)
    /\ UNCHANGED vars

\* one item of the argument list: x._jni_ref of a wrapper of the host
\* program, or the result of a conversion on the fly
\* (_python_str_to_java_string, _to_kotlin_list, _to_kotlin_map), a newly
\* pinned reference that only the list refers to; or the list is complete
\* and _call_method is called
FlArg(t) ==
    /\ Fl.calls[t].pc = "args"
    /\ \/ /\ Cardinality(Fl.calls[t].args) < MaxArgs
          /\ \E r \in RefIds :
               /\ \/ Fl.host[r] > 0
                  \/ ~Fl.live[r] /\ FlRefCount(r, Fl.host, Fl.calls) = 0
               /\ FlCollect(Fl.host,
                            [Fl.calls EXCEPT ![t].args = @ \cup {r}],
                            [Fl.live EXCEPT ![r] = TRUE])
       \/ FlCollect(Fl.host, [Fl.calls EXCEPT ![t].pc = "call"], Fl.live)
    /\ UNCHANGED vars

\* Call<kind>Method(env, jni_ref, method, *args) is entered
FlCall(t) ==
    /\ Fl.calls[t].pc = "call"
    /\ FlCollect(Fl.host, [Fl.calls EXCEPT ![t].pc = "native"], Fl.live)
    /\ UNCHANGED vars

\* the native call returns and the wrapper method with it: its parameter
\* and its argument list go out of scope
FlReturn(t) ==
    /\ Fl.calls[t].pc = "native"
    /\ FlCollect(Fl.host, [Fl.calls EXCEPT ![t] = NoCall], Fl.live)
    /\ UNCHANGED vars

\* thread t drops one of the host program's references to a wrapper, by
\* running host code or a collection, whatever else it is doing
FlDrop(t) ==
    /\ \E r \in RefIds :
         /\ Fl.host[r] > 0
         /\ FlCollect([Fl.host EXCEPT ![r] = @ - 1], Fl.calls, Fl.live)
    /\ UNCHANGED vars

NextFlight ==
    \E t \in TIds :
        \/ FlBegin(t)
        \/ FlArg(t)
        \/ FlCall(t)
        \/ FlReturn(t)
        \/ FlDrop(t)

SpecFlight == InitFlight /\ [][NextFlight]_<<vars, side>>

\* ------------------------------------------ parameters and results
\* bound: MaxVal distinct values per parameter and per native result
MaxVal == 2

\* the host value None; the other host values are 1..MaxVal, and the
\* embedded counterpart of host value v is the reference v
PyNone == 0
ArgValues == {PyNone} \cup (1..MaxVal)

Param(name, type, optional) ==
    [name |-> name, type |-> type, optional |-> optional]

\* the generated wrapper functions that the model runs: how the receiver is
\* obtained, the parameters, and the expression applied to the result
Operations ==
    [op \in {"Message.__init__", "EmbedRule.__init__", "Kson.format",
             "Kson.analyze", "Message.start", "EmbedRule.tag",
             "Analysis.kson_value"} |->
        CASE op = "Message.__init__" ->
                 [recv |-> "_construct",
                  params |-> <<Param("message", "str", FALSE),
                               Param("severity", "enum", FALSE),
                               Param("start", "object", FALSE),
                               Param("end", "object", FALSE)>>,
                  conv |-> "self", optional |-> FALSE]
          [] op = "EmbedRule.__init__" ->
                 [recv |-> "_construct",
                  params |-> <<Param("path_pattern", "str", FALSE),
                               Param("tag", "str", TRUE)>>,
                  conv |-> "self", optional |-> FALSE]
          [] op = "Kson.format" ->
                 [recv |-> "_access_static_field",
                  params |-> <<Param("kson", "str", FALSE),
                               Param("format_options", "object", FALSE)>>,
                  conv |-> "_java_string_to_python_str", optional |-> FALSE]
          [] op = "Kson.analyze" ->
                 [recv |-> "_access_static_field",
                  params |-> <<Param("kson", "str", FALSE),
                               Param("filepath", "str", TRUE)>>,
                  conv |-> "_from_kotlin_object", optional |-> FALSE]
          [] op = "Message.start" ->
                 [recv |-> "self", params |-> <<>>,
                  conv |-> "_from_kotlin_object", optional |-> FALSE]
          [] op = "EmbedRule.tag" ->
                 [recv |-> "self", params |-> <<>>,
                  conv |-> "_java_string_to_python_str", optional |-> TRUE]
          [] OTHER ->
                 [recv |-> "self", params |-> <<>>,
                  conv |-> "_downcast", optional |-> TRUE]]

Wr == sub.wrap

\* (mutation) a wrapper function without its `is None` tests
RequiredCheckNothing(params, values) == 0

\* `if p is None: raise ValueError(..)` for each required parameter in
\* order: the position of the first one that is None, 0 when there is none
RequiredCheck(params, values) ==
    LET none == {i \in 1..Len(params) :
                    ~params[i].optional /\ values[i] = PyNone}
    IN IF none = {} THEN 0 ELSE CHOOSE i \in none : \A j \in none : i <= j

\* (mutation) an argument expression without `if .. is not None else
\* ffi.NULL`
ToNativeAlways(param, v) ==
    CASE param.type = "str" -> [ref |-> v, calls |-> <<"_python_str_to_java_string">>]
      [] param.type = "enum" -> [ref |-> v, calls |-> <<"_to_kotlin_enum">>]
      [] OTHER -> [ref |-> v, calls |-> <<>>]

\* one item of the argument list: _python_str_to_java_string(p),
\* p._to_kotlin_enum() or p._jni_ref, and for an optional parameter the same
\* `if p is not None else ffi.NULL`
ToNative(param, v) ==
    IF param.optional /\ v = PyNone THEN [ref |-> NullPtr, calls |-> <<>>]
    ELSE CASE param.type = "str" ->
                  [ref |-> v, calls |-> <<"_python_str_to_java_string">>]
           [] param.type = "enum" ->
                  [ref |-> v, calls |-> <<"_to_kotlin_enum">>]
           [] OTHER -> [ref |-> v, calls |-> <<>>]

\* a call of a wrapper function with any values for its parameters
InitWrap ==
    /\ InitBridge
    /\ \E op \in DOMAIN Operations :
       \E values \in [1..Len(Operations[op].params) -> ArgValues] :
         sub = [AllIdle EXCEPT !.wrap =
                  [pc |-> "check", op |-> op, values |-> values, args |-> <<>>,
                   log |-> <<>>, res |-> NullPtr, thrown |-> FALSE,
                   out |-> [kind |-> "pending"]]]

WrSet(r) == sub' = [sub EXCEPT !.wrap = r]

\* the `is None` tests, then jni_ref = _access_static_field(..INSTANCE..)
\* in a function of the Kson object
WrCheck ==
    /\ Wr.pc = "check"
    /\ LET o == Operations[Wr.op]
           i == RequiredCheck(o.params, Wr.values)
       IN IF i # 0
          THEN WrSet([Wr EXCEPT !.pc = "done",
                         !.out = Raised(<<ValueError, o.params[i].name>>)])
          ELSE WrSet([Wr EXCEPT !.pc = "args",
                         !.log = IF o.recv = "_access_static_field"
                                 THEN <<o.recv>> ELSE <<>>])
    /\ UNCHANGED vars

\* the next item of the argument list is evaluated
WrArg ==
    /\ Wr.pc = "args"
    /\ Len(Wr.args) < Len(Operations[Wr.op].params)
    /\ LET i == Len(Wr.args) + 1
           a == ToNative(Operations[Wr.op].params[i], Wr.values[i])
       IN WrSet([Wr EXCEPT !.args = Append(@, a.ref), !.log = @ \o a.calls])
    /\ UNCHANGED vars

\* _construct or _call_method with the argument list: the member returns a
\* reference or null, or throws
WrInvoke ==
    /\ Wr.pc = "args"
    /\ Len(Wr.args) = Len(Operations[Wr.op].params)
    /\ LET o == Operations[Wr.op]
           fn == IF o.recv = "_construct" THEN "_construct" ELSE "_call_method"
       IN \E thrown \in BOOLEAN, res \in {NullPtr} \cup (1..MaxVal) :
            /\ thrown => res = NullPtr
            /\ (res = NullPtr /\ ~thrown) => fn = "_call_method"
            /\ WrSet([Wr EXCEPT !.pc = IF thrown THEN "done" ELSE "result",
                           !.log = Append(@, fn), !.res = res,
                           !.thrown = thrown,
                           !.out = IF thrown THEN Raised(<<UnreachableError>>)
                                   ELSE @])
    /\ UNCHANGED vars

\* the return expression: self for a constructor; for an optional result
\* `None if x0 == ffi.NULL else conv(x0)`; otherwise conv(result).  A null
\* reference given to GetStringChars or GetObjectClass has no defined
\* outcome.
WrResult ==
    /\ Wr.pc = "result"
    /\ LET o == Operations[Wr.op] IN
       IF o.conv = "self"
       THEN WrSet([Wr EXCEPT !.pc = "done", !.out = Wrapper(Wr.op, Wr.res)])
       ELSE IF o.optional /\ Wr.res = NullPtr
       THEN WrSet([Wr EXCEPT !.pc = "done", !.out = ReturnedNone])
       ELSE IF Wr.res = NullPtr /\ o.conv = "_java_string_to_python_str"
       THEN \E outcome \in {"crash", "raise"} :
              WrSet([Wr EXCEPT !.pc = "done", !.log = Append(@, o.conv),
                        !.out = [kind |-> outcome]])
       ELSE WrSet([Wr EXCEPT !.pc = "done", !.log = Append(@, o.conv),
                      !.out = Wrapper(o.conv, Wr.res)])
    /\ UNCHANGED vars

NextWrap ==
    \/ WrCheck
    \/ WrArg
    \/ WrInvoke
    \/ WrResult

SpecWrap == InitWrap /\ [][NextWrap]_<<vars, side>>

\* ------------------------------------------------- the build backend
\* build_backend.py: the directories src and kson-sdist next to it.  A tree
\* is the content of a src directory: the files of its kson directory among
\* the artifact names, the content of kson/__init__.py, and the bytes of
\* kson/_marker.c (no element when the file does not exist).
BuildPlatforms == {"win32", "darwin", "linux", "freebsd"}

ArtifactNames == {"kson.dll", "libkson.dylib", "libkson.so", "jni_simplified.h"}

MarkerBytes == {"", "/* platform marker */"}

Trees ==
    [files : SUBSET ArtifactNames,
     init : {"# source", "# built"},
     marker : {{}} \cup {{b} : b \in MarkerBytes}]

\* kson-sdist: absent, or present with or without lib-python/src
NoSdist == [exists |-> FALSE, src |-> {}]

Sdists ==
    {NoSdist} \cup {[exists |-> TRUE, src |-> s] :
                       s \in {{}} \cup {{tr} : tr \in
                               {x \in Trees : x.init = "# built"}}}

Be == sub.build

\* _required_artifacts(); the platform is a supported one
RequiredArtifacts(platform) ==
    <<PLATFORM_NATIVE_LIBRARIES[platform], "jni_simplified.h">>

\* (mutation) a test that always asks for a build
ArtifactsExistNever(required, files) == FALSE

\* (mutation) a test that is content with the library of any platform
ArtifactsExistAny(required, files) ==
    /\ \E lib \in ArtifactNames \ {"jni_simplified.h"} : lib \in files
    /\ "jni_simplified.h" \in files

\* all((src_kson_dir / f).exists() for f in required)
ArtifactsExist(required, files) ==
    \A i \in 1..Len(required) : required[i] \in files

\* (mutation) a post-condition that looks for the library alone
MissingLibraryOnly(required, files) ==
    IF required[1] \in files THEN <<>> ELSE <<required[1]>>

\* (mutation) a post-condition that finds nothing missing
MissingNothing(required, files) == <<>>

\* [f for f in required if not (src_kson_dir / f).exists()]
Missing(required, files) ==
    SelectSeq(required, LAMBDA f : f \notin files)

RequiredMissing(platform, missing) ==
    Raised(<<"RuntimeError", "Required native artifacts missing for ",
             platform, missing>>)

BuildFailed == Raised(<<"RuntimeError", "Failed to build native artifacts">>)

\* (mutation) a build whose exit status is not looked at
GradleFailedNever(code) == FALSE

\* result.returncode != 0
GradleFailed(code) == code # 0

\* (mutation) a restore that tests the saved bytes for truth
ReplaceSrcIfBytes(src, built) ==
    IF src.marker = {} \/ src.marker = {""} THEN built
    ELSE [built EXCEPT !.marker = src.marker]

\* marker_c_content = read_bytes() if _marker.c exists; rmtree(src);
\* copytree(kson-sdist/lib-python/src, src); write_bytes(marker_c_content)
\* if it is not None
ReplaceSrc(src, built) ==
    IF src.marker = {} THEN built
    ELSE [built EXCEPT !.marker = src.marker]

\* build_wheel is called with any content of the two directories on any
\* platform
InitBuild ==
    /\ InitBridge
    /\ \E platform \in BuildPlatforms, src \in {x \in Trees : x.init = "# source"},
          sdist \in Sdists :
         sub = [AllIdle EXCEPT !.build =
                  [pc |-> "start", platform |-> platform, src |-> src,
                   sdist |-> sdist, src0 |-> src, sdist0 |-> sdist,
                   sdist1 |-> sdist, runs |-> 0, code |-> {},
                   out |-> [kind |-> "pending"], wheel |-> {}]]

BeSet(r) == sub' = [sub EXCEPT !.build = r]

\* required = _required_artifacts(); artifacts_exist; the test of line 46
BeStart ==
    /\ Be.pc = "start"
    /\ IF DictGet(PLATFORM_NATIVE_LIBRARIES, Be.platform) = None
       THEN BeSet([Be EXCEPT !.pc = "done",
                      !.out = UnsupportedPlatform(Be.platform)])
       ELSE IF /\ ~ArtifactsExist(RequiredArtifacts(Be.platform), Be.src.files)
               /\ Be.sdist.exists
            THEN BeSet([Be EXCEPT !.pc = "gradle"])
            ELSE BeSet([Be EXCEPT !.pc = "post"])
    /\ UNCHANGED vars

\* subprocess.run([gradlew, "lib-python:build"], cwd=kson-sdist): the build
\* writes any of the artifacts into kson-sdist/lib-python/src/kson, if that
\* tree exists, and exits with zero or not; or the program cannot be started
\* and run raises
BeGradle ==
    /\ Be.pc = "gradle"
    /\ \/ BeSet([Be EXCEPT !.pc = "done", !.runs = @ + 1,
                     !.out = Raised(<<"FileNotFoundError">>)])
       \/ \E code \in {0, 1},
             made \in SUBSET {PLATFORM_NATIVE_LIBRARIES[Be.platform],
                              "jni_simplified.h"} :
            LET s1 == [Be.sdist EXCEPT !.src =
                          {[tr EXCEPT !.files = @ \cup made] : tr \in @}]
            IN BeSet([Be EXCEPT !.runs = @ + 1, !.code = {code},
                         !.sdist = s1, !.sdist1 = s1,
                         !.pc = IF GradleFailed(code) THEN "done"
                                ELSE "replace",
                         !.out = IF GradleFailed(code) THEN BuildFailed
                                 ELSE @])
    /\ UNCHANGED vars

\* lines 64-81: the src directory is replaced with kson-sdist/lib-python/src
\* if that exists
BeReplace ==
    /\ Be.pc = "replace"
    /\ BeSet([Be EXCEPT !.pc = "cleanup",
                 !.src = IF Be.sdist.src = {} THEN @
                         ELSE ReplaceSrc(@, CHOOSE tr \in Be.sdist.src : TRUE)])
    /\ UNCHANGED vars

\* shutil.rmtree(kson_copy_dir, ignore_errors=True)
BeCleanup ==
    /\ Be.pc = "cleanup"
    /\ BeSet([Be EXCEPT !.pc = "post", !.sdist = NoSdist])
    /\ UNCHANGED vars

\* the post-condition of lines 87-94
BePost ==
    /\ Be.pc = "post"
    /\ LET missing == Missing(RequiredArtifacts(Be.platform), Be.src.files)
       IN BeSet([Be EXCEPT !.pc = "done",
                    !.out = IF missing # <<>>
                            THEN RequiredMissing(Be.platform, missing)
                            ELSE ReturnedNone])
    /\ UNCHANGED vars

\* build_wheel: _orig.build_wheel after _ensure_native_artifacts has
\* returned; the wheel is built from the src directory as it is then
BeWheel ==
    /\ Be.pc = "done"
    /\ Be.out = ReturnedNone
    /\ BeSet([Be EXCEPT !.pc = "wheel", !.wheel = {Be.src}])
    /\ UNCHANGED vars

NextBuild ==
    \/ BeStart
    \/ BeGradle
    \/ BeReplace
    \/ BeCleanup
    \/ BePost
    \/ BeWheel

SpecBuild == InitBuild /\ [][NextBuild]_<<vars, side>>

\* ------------------------------------- _java_string_to_python_str alone
\* the jchars of the embedded strings given to the function: NUL, a letter,
\* the last character of the basic plane, and high and low surrogates, in
\* any order
JCharValues == {0, 65, 65535, 55296, 56320, 57343}

JStrings == UNION {[1..n -> JCharValues] : n \in 0..MaxStrLen}

Jp == sub.chars

\* _java_string_to_python_str(jni_ref) is called on any embedded string; got
\* and released count the buffers that GetStringChars handed out and that
\* ReleaseStringChars was called for
InitChars ==
    /\ InitBridge
    /\ \E jstr \in JStrings :
         sub = [AllIdle EXCEPT !.chars =
                  [pc |-> "chars", jstr |-> jstr, got |-> 0, released |-> 0,
                   out |-> ReturnedNone]]

\* native_chars = GetStringChars(env, jni_ref, NULL); _raise_if_null
J2pGetChars ==
    /\ Jp.pc = "chars"
    /\ \E isNull \in BOOLEAN :
         sub' = [sub EXCEPT
                   !.chars.pc = IF isNull THEN "done" ELSE "decode",
                   !.chars.got = IF isNull THEN @ ELSE @ + 1,
                   !.chars.out = IF isNull THEN Raised(UnreachableError) ELSE @]
    /\ UNCHANGED vars

\* bytes(ffi.buffer(native_chars, GetStringLength * 2)).decode("utf-16-le",
\* "strict"): UnicodeDecodeError leaves the function through __exit__
J2pDecode ==
    /\ Jp.pc = "decode"
    /\ LET d == DecodeUtf16(Jp.jstr)
       IN sub' = [sub EXCEPT
                    !.chars.pc = IF d = Malformed THEN "done" ELSE "release",
                    !.chars.out = IF d = Malformed THEN Raised(UnicodeError)
                                  ELSE [kind |-> "str", s |-> d]]
    /\ UNCHANGED vars

\* ReleaseStringChars(env, jni_ref, native_chars); return python_str
J2pRelease ==
    /\ Jp.pc = "release"
    /\ sub' = [sub EXCEPT !.chars.pc = "done", !.chars.released = @ + 1]
    /\ UNCHANGED vars

NextChars ==
    \/ J2pGetChars
    \/ J2pDecode
    \/ J2pRelease

SpecChars == InitChars /\ [][NextChars]_<<vars, side>>

\* ------------------------------------- the Kotlin/Native binding, lib.py
\* bound: at most MaxPtr stable pointers are handed out
MaxPtr == 4

PtrIds == 1..MaxPtr

\* LIBRARY_NAMES of lib.py
KnLibraryNames ==
    [win32 |-> "kson.dll", darwin |-> "kson.dylib", linux |-> "libkson.so"]

Kn == sub.native

\* the import of lib.py on any platform, with the library file loadable or
\* not.  alloc is the number of stable pointers the library has handed out,
\* regs[p] the destructors that ffi.gc has registered for pointer p and that
\* have not run yet, disp[p] the DisposeStablePointer calls made for p.
InitNative ==
    /\ InitBridge
    /\ \E platform \in Platforms, file \in BOOLEAN :
         sub = [AllIdle EXCEPT !.native =
                  [pc |-> "dlopen", platform |-> platform, file |-> file,
                   opened |-> {}, looked |-> {}, out |-> ReturnedNone,
                   alloc |-> 0, regs |-> [p \in PtrIds |-> 0],
                   disp |-> [p \in PtrIds |-> 0]]]

KnSet(r) == sub' = [sub EXCEPT !.native = r]

\* lib = ffi.dlopen(LIBRARY_NAMES.get(sys.platform)): the result of get is
\* passed on untested; dlopen(None) opens the namespace of the process or,
\* where that is not supported, raises OSError
KnDlopen ==
    /\ Kn.pc = "dlopen"
    /\ LET name == DictGet(KnLibraryNames, Kn.platform)
       IN \/ /\ name = None \/ Kn.file
             /\ KnSet([Kn EXCEPT !.pc = "symbols", !.opened = {name}])
          \/ /\ name = None \/ ~Kn.file
             /\ KnSet([Kn EXCEPT !.pc = "done", !.opened = {name},
                          !.out = Raised(<<"OSError">>)])
    /\ UNCHANGED vars

\* symbols = lib.libkson_symbols() if sys.platform == 'linux' else
\* lib.kson_symbols(): the attribute is looked up in what dlopen opened
KnSymbols ==
    /\ Kn.pc = "symbols"
    /\ LET symbol == IF Kn.platform = "linux" THEN "libkson_symbols"
                     ELSE "kson_symbols"
       IN IF Kn.opened = {None}
          THEN KnSet([Kn EXCEPT !.pc = "done", !.looked = {symbol},
                         !.out = Raised(<<"AttributeError", symbol>>)])
          ELSE KnSet([Kn EXCEPT !.pc = "ready", !.looked = {symbol}])
    /\ UNCHANGED vars

\* init_wrapper(target_type, ptr): ptr.pinned = ffi.gc(ptr.pinned,
\* symbols.DisposeStablePointer)
InitWrapperRegs(regs, p) == [regs EXCEPT ![p] = @ + 1]

\* a call that returns a stable pointer and wraps it: Kson.analyze,
\* Message.start (init_wrapper), or Kson.to_json, Kson.parse_schema,
\* FormatOptions.indent_type (init_wrapper, then _translate, which calls
\* init_wrapper on the same ptr for the subtype)
KnWrap ==
    /\ Kn.pc = "ready"
    /\ Kn.alloc < MaxPtr
    /\ \E translate \in BOOLEAN :
         LET p == Kn.alloc + 1
             r1 == InitWrapperRegs(Kn.regs, p)
         IN KnSet([Kn EXCEPT !.alloc = p,
                      !.regs = IF translate THEN InitWrapperRegs(r1, p)
                               ELSE r1])
    /\ UNCHANGED vars

\* a call that returns a list, and from_kotlin_list on it: the iterator is
\* created and disposed with DisposeStablePointer(iterator.pinned); each
\* item is stored in tmp.ptr as it came; the list pointer is not touched
KnFromList ==
    /\ Kn.pc = "ready"
    /\ \E n \in 0..MaxPtr :
         /\ Kn.alloc + 2 + n <= MaxPtr
         /\ KnSet([Kn EXCEPT !.alloc = @ + 2 + n,
                      !.disp = [@ EXCEPT ![Kn.alloc + 2] = @ + 1]])
    /\ UNCHANGED vars

\* a cdata made by ffi.gc is collected: its destructor calls
\* DisposeStablePointer on the pointer
KnFinalize ==
    /\ \E p \in PtrIds :
         /\ Kn.pc = "ready"
         /\ Kn.regs[p] > 0
         /\ KnSet([Kn EXCEPT !.regs = [@ EXCEPT ![p] = @ - 1],
                      !.disp = [@ EXCEPT ![p] = @ + 1]])
    /\ UNCHANGED vars

NextNative ==
    \/ KnDlopen
    \/ KnSymbols
    \/ KnWrap
    \/ KnFromList
    \/ KnFinalize

SpecNative == InitNative /\ [][NextNative]_<<vars, side>>

\* ============================================================== claims
Frames == {<<t, i>> \in Threads \X (1..(2 * MaxCd + 2)) : i <= Len(stack[t])}

\* the frame is inside the body of its `with AttachedJniThread()`
InBody(f) == f.pc \notin {"enter", "cache", "clear", "ret"}

\* frame i of thread t runs inside the attachment scope of a frame below it
Nested(t, i) == \E j \in 1..(i - 1) : InBody(stack[t][j])

LiveGlobals == {g \in GIds : gtab[g] # FreeObj}

\* C1: attachment is reentrant.  Every scope entered inside the body of
\* another scope of the same thread made no AttachCurrentThread call, got
\* the env cached by the enclosing scope, and makes no DetachCurrentThread
\* call; an outermost scope entered with the token unset made exactly one
\* AttachCurrentThread call and makes exactly one DetachCurrentThread call,
\* when it exits.
C1_Reentrant ==
    \A <<t, i>> \in Frames :
        LET f == stack[t][i] IN
        /\ (Nested(t, i) /\ f.entered) =>
              /\ f.na = 0 /\ f.nd = 0 /\ ~f.sd
              /\ f.env = tls[t] /\ f.tok0 = f.env /\ f.env # EnvNone
        /\ (~Nested(t, i) /\ f.entered /\ f.tok0 = EnvNone) =>
              /\ f.na = 1
              /\ f.nd = (IF f.pc \in {"clear", "ret"} /\ ~f.afail THEN 1 ELSE 0)
              /\ (InBody(f) => f.sd)

\* C1 witness: _java_string_to_python_str has run and returned inside
\* _jni_class_name, whose scope did the attach and is still attached
C1_Witness ==
    /\ Len(stack["main"]) = 2
    /\ stack["main"][1].fn = "clsname" /\ stack["main"][1].na = 1
    /\ stack["main"][1].tok0 = EnvNone
    /\ stack["main"][2].fn = "j2p" /\ stack["main"][2].pc = "ret"
    /\ stack["main"][2].exc = NoError
    /\ attached["main"]

\* C2 as stated: every JNI call through an env is made by an attached
\* thread with the env of its current attachment: no call was made detached
\* or with a stale env, and every frame inside a scope body holds the live
\* env, which is the one cached for its thread.
C2_CallsAttached ==
    /\ ~badCall
    /\ \A <<t, i>> \in Frames :
          InBody(stack[t][i]) =>
             /\ attached[t]
             /\ stack[t][i].env = EnvLive
             /\ tls[t] = EnvLive

\* the finalizers that will still release global reference g: the cdata
\* objects that point to it and the destructors started but not yet run
Owners(g) ==
    Cardinality({c \in CdIds : cd[c] = g})
    + Cardinality({x \in Frames :
          /\ stack[x[1]][x[2]].fn = "fin"
          /\ stack[x[1]][x[2]].g = g
          /\ ~stack[x[1]][x[2]].invoked})

\* C3: a global reference is released at most once and never while a
\* wrapper or a running function holds it: DeleteGlobalRef was never called
\* on a reference that is not live, every reference a cdata points to is
\* live, every cdata is referred to by the host program or a frame, and a
\* live reference has exactly one finalizer (none once its destructor gave
\* up), a released one has none.
C3_ReleasedOnce ==
    /\ ~badRelease
    /\ \A c \in CdIds :
          cd[c] # FreeCd =>
             /\ RefCount(c, host, stack) >= 1
             /\ cd[c] # NullPtr => gtab[cd[c]] # FreeObj
    /\ \A g \in GIds :
          Owners(g) = (IF g \in LiveGlobals \ lost THEN 1 ELSE 0)

\* C3 witness: a reference shared by two holders of the host program while
\* a finalizer has just released another reference
C3_Witness ==
    \E c \in CdIds :
        /\ host[c] = 2 /\ cd[c] # NullPtr
        /\ \E t \in Threads :
              /\ Busy(t) /\ Top(t).fn = "fin" /\ Top(t).invoked
              /\ Top(t).g # NullPtr /\ Top(t).g # cd[c]

Quiescent ==
    /\ \A t \in Threads : stack[t] = <<>>
    /\ \A c \in CdIds : host[c] = 0

\* C4 as stated: once the host program holds nothing and every finalizer has
\* run, no global reference is pinned.
C4_NoLeak == Quiescent => LiveGlobals = {}

\* C5: what a bridge function returns to the host program, and what a
\* wrapper stores, is a cdata of a pinned (live global) reference, or NULL
\* for a null result; no local reference is left in the returning function's
\* variables, so none escapes its attachment scope.
C5_OnlyGlobalsEscape ==
    /\ \A c \in CdIds :
          host[c] > 0 =>
             cd[c] # FreeCd /\ (cd[c] # NullPtr => gtab[cd[c]] # FreeObj)
    /\ \A <<t, i>> \in Frames :
          LET f == stack[t][i] IN
          (f.pc = "ret" /\ f.exc = NoError /\ ReturnsObject(f)) =>
             /\ f.lref = 0 /\ f.lcls = 0
             /\ Returned(f) # 0
             /\ cd[Returned(f)] # FreeCd
             /\ cd[Returned(f)] # NullPtr => gtab[cd[Returned(f)]] # FreeObj

\* C5 witness: an object-returning _call_method is returning a pinned,
\* non-null result
C5_Witness ==
    \E t \in Threads :
        /\ Busy(t) /\ Top(t).fn = "call" /\ Top(t).pc = "ret"
        /\ Top(t).kind = "ObjectMethod" /\ Top(t).exc = NoError
        /\ Top(t).res # 0 /\ cd[Top(t).res] # NullPtr

\* the step is the _to_gc_global_ref of thread t's top frame on a non-null
\* local reference
PinStep(t) ==
    /\ At(t, {"pin"})
    /\ Top(t).lref # 0
    /\ Len(stack'[t]) >= Len(stack[t])
    /\ stack'[t][Len(stack[t])].pc # "pin"

\* C6: pin (_to_gc_global_ref) makes the global reference from the still
\* live local reference and deletes that local reference once: after it the
\* input local reference is dead, the other local references are untouched,
\* exactly one global reference was added, it refers to the object the local
\* reference referred to, and the returned cdata points to it.
C6_PinPromotes ==
    [][\A t \in Threads :
          PinStep(t) =>
             LET l == Top(t).lref
                 c == stack'[t][Len(stack[t])].res
             IN /\ ltab[t][l] # FreeObj
                /\ ltab'[t][l] = FreeObj
                /\ \A k \in LIds \ {l} : ltab'[t][k] = ltab[t][k]
                /\ c # 0 /\ cd[c] = FreeCd /\ cd'[c] \in GIds
                /\ gtab[cd'[c]] = FreeObj
                /\ gtab'[cd'[c]] = ltab[t][l]
                /\ \A g \in GIds \ {cd'[c]} : gtab'[g] = gtab[g]
                /\ badCall' = badCall]_vars

\* C6 witness: _construct has pinned the new object; its local reference is
\* gone and the global one is live
C6_Witness ==
    \E t \in Threads :
        /\ Busy(t) /\ Top(t).fn = "construct" /\ Top(t).pc = "exit"
        /\ Top(t).exc = NoError /\ Top(t).res # 0 /\ Top(t).lref = 0
        /\ cd[Top(t).res] # NullPtr /\ gtab[cd[Top(t).res]] = InstObj
        /\ \A l \in LIds : ltab[t][l] = FreeObj

\* C7 as stated: the release finalizer (_delete_global_ref).  Entered
\* without a cached token it attaches and, unless the attach failed, deletes
\* the reference and calls DetachCurrentThread, which leaves the thread
\* detached with no token; entered with a cached token it attaches nothing,
\* deletes the reference with the cached env and leaves the thread attached
\* with its token.
C7_Release ==
    \A <<t, i>> \in Frames :
        LET f == stack[t][i] IN
        (f.fn = "fin" /\ f.entered /\ i = Len(stack[t])) =>
           /\ (f.tok0 = EnvNone) =>
                 /\ f.na = 1
                 /\ (f.pc = "ret" /\ ~f.afail) =>
                       /\ f.invoked /\ f.nd = 1
                       /\ (f.exc = NoError => ~attached[t] /\ tls[t] = EnvNone)
           /\ (f.tok0 # EnvNone) =>
                 /\ f.na = 0 /\ f.nd = 0 /\ f.env = f.tok0
                 /\ attached[t] /\ tls[t] = f.tok0
                 /\ (f.pc \in {"exit", "ret"} => f.invoked)

\* C8: when AttachCurrentThread fails, __enter__ raises the attach error:
\* the body is not run (no class looked up, nothing invoked, pinned or
\* deleted), no token is cached, no env handed out and no detach made.
C8_AttachFailure ==
    \A <<t, i>> \in Frames :
        LET f == stack[t][i] IN
        f.afail =>
           /\ f.pc = "ret" /\ f.exc = AttachError
           /\ ~f.invoked /\ f.clazz = 0 /\ f.res = 0 /\ f.lref = 0 /\ f.lcls = 0
           /\ ~f.sd /\ f.nd = 0 /\ f.env = EnvNone
           /\ (i = Len(stack[t]) => tls[t] = EnvNone)

\* C8 witness: _call_method failed to attach
C8_Witness ==
    \E t \in Threads :
        /\ Busy(t) /\ Top(t).fn = "call" /\ Top(t).exc = AttachError
        /\ Top(t).pc = "ret"

\* C9: a Java exception thrown by NewObject or Call<kind>Method is cleared
\* and turned into an error right after the call: the function goes to its
\* exit with the error, its result is neither pinned nor returned, and no
\* exception is ever left pending.
C9_ExceptionChecked ==
    /\ \A t \in Threads : ~pending[t]
    /\ \A <<t, i>> \in Frames :
          LET f == stack[t][i] IN
          f.thrown =>
             /\ f.pc \in {"exit", "clear", "ret"}
             /\ f.exc = (IF f.cause = "detach" THEN DetachError ELSE UnreachableError)
             /\ f.cause \in {"thrown", "detach"}
             /\ f.res = 0 /\ f.lref = 0 /\ Returned(f) = 0

\* C9 witness: the constructor called by _construct threw
C9_Witness ==
    \E t \in Threads :
        /\ Busy(t) /\ Top(t).fn = "construct" /\ Top(t).thrown
        /\ Top(t).pc = "ret" /\ Top(t).exc = UnreachableError

\* the error the bridge raises for an exception thrown by the invoked method
NativeInvocationError == RaiseExceptionIfAny(TRUE).err

DcVariant(k, h) ==
    /\ k.embedded # <<>>
    /\ \/ k.base = h
       \/ \E m \in HostClasses : m.cls = k.base /\ m.base = h

\* C11: for each sealed hierarchy and every concrete variant class name of
\* it, _downcast returns a wrapper of exactly the matching host subtype that
\* holds the same reference, and it returns that subtype for no other class
\* name; a Result$Failure object becomes a Failure wrapper, not an exception.
C11_Downcast ==
    (Dc.pc = "done" /\ Dc.obj.ref # NullPtr) =>
        \A k \in HostClasses :
            DcVariant(k, Dc.h) =>
                /\ Dc.name = ClassName(ApiPkg, k.embedded)
                      => Dc.out = Wrapper(k.cls, Dc.obj.ref)
                /\ (Dc.out.kind = "wrapper" /\ Dc.out.cls = k.cls)
                      => Dc.name = ClassName(ApiPkg, k.embedded)

C11_Witness ==
    /\ Dc.pc = "done"
    /\ Dc.h = "Result"
    /\ Dc.name = ClassName(ApiPkg, <<"Result", "Failure">>)
    /\ Dc.obj.ref # NullPtr
    /\ Dc.out = Wrapper("_Result_Failure", Dc.obj.ref)

\* C12: when the runtime class name is not one of the hierarchy's listed
\* variant names, _downcast raises; it never returns a value to the caller.
C12_UnreachableVariant ==
    (Dc.pc = "done" /\ Dc.obj.ref # NullPtr
       /\ MatchCase(DowncastCases(Dc.h), Dc.name) = 0)
        => Dc.out.kind = "raise"

\* C13: for each host enumeration and every member m,
\* _from_kotlin_enum(m._to_kotlin_enum()) is m whenever the embedded
\* enumeration declares the same member names in the same order, and an
\* embedded ordinal with no host member raises instead of mapping to a member.
C13_EnumOrdinal ==
    En.pc = "done" =>
        /\ (En.m # "" /\ En.decl = HostMembers(En.e))
              => En.out = [kind |-> "member", name |-> En.m]
        /\ (En.index >= Len(HostMembers(En.e))) => En.out.kind = "raise"

C13_Witness ==
    /\ En.pc = "done"
    /\ En.e = "TokenType"
    /\ En.decl = HostMembers("TokenType")
    /\ En.m = "EOF"
    /\ En.index = 27
    /\ En.out = [kind |-> "member", name |-> "EOF"]

\* s is a valid Unicode string: no character of it is a surrogate
ValidUnicode(s) == \A i \in 1..Len(s) : ~IsSurrogate(s[i])

RECURSIVE CodeUnitCount(_)
\* the number of UTF-16 code units of s: two for a supplementary character
CodeUnitCount(s) ==
    IF s = <<>> THEN 0
    ELSE (IF Head(s) >= 65536 THEN 2 ELSE 1) + CodeUnitCount(Tail(s))

\* C14: for every valid Unicode host string s (empty, with NUL, with
\* supplementary characters), _java_string_to_python_str(
\* _python_str_to_java_string(s)) equals s, and the embedded string is
\* created with as many jchars as s has UTF-16 code units.
C14_StringRoundTrip ==
    ValidUnicode(St.s) =>
        /\ St.pc \in {"chars", "decode", "done"}
              => /\ St.utf16_str_len = CodeUnitCount(St.s)
                 /\ Len(St.jstr) = CodeUnitCount(St.s)
        /\ St.pc = "done" => St.out = [kind |-> "str", s |-> St.s]

C14_Witness ==
    /\ St.pc = "done"
    /\ St.s = <<0, 1114111>>
    /\ Len(St.jstr) = 3
    /\ St.out = [kind |-> "str", s |-> St.s]

\* C15: for every finite host list L of wrappers,
\* _from_kotlin_list(_to_kotlin_list(L)) has the length of L and its i-th
\* element refers to the embedded object of L[i]; _from_kotlin_list on an
\* embedded list of n elements ends after n+1 hasNext calls and n next calls
\* and yields the elements in iteration order (none for an empty list).
C15_ListRoundTrip ==
    (Li.pc = "done" /\ \A i \in 1..Len(Li.list) : Li.list[i] # NoJniRef) =>
        /\ Li.out = [kind |-> "list", items |-> Li.list]
        /\ Li.hasNext = Len(Li.array_list) + 1
        /\ Li.next = Len(Li.array_list)
        /\ Li.out.items = Li.array_list

C15_Witness ==
    /\ Li.pc = "done"
    /\ Li.list = <<2, 1, 2>>
    /\ Li.out = [kind |-> "list", items |-> <<2, 1, 2>>]
    /\ Li.hasNext = 4
    /\ Li.next = 3

\* the host dictionary has string keys that are valid Unicode and wrapper
\* values
ConvertibleDict(d) ==
    \A k \in DOMAIN d : ValidUnicode(k) /\ d[k] # NoJniRef

\* C16: _to_kotlin_map builds a fresh embedded map with exactly one entry per
\* host dictionary item, _from_kotlin_map visits every entry exactly once
\* through the entry-set iterator, and the round trip of a dictionary with
\* string keys and wrapper values yields the same keys, each with the same
\* embedded value.
C16_MapRoundTrip ==
    ConvertibleDict(Mp.items) =>
        /\ Mp.pc \in {"hasNext", "next", "done"}
              => Cardinality(DOMAIN Mp.map) = Cardinality(DOMAIN Mp.items)
        /\ Mp.next = Cardinality(Mp.visited)
        /\ Mp.pc = "done"
              => /\ Mp.visited = DOMAIN Mp.map
                 /\ Mp.out.kind = "dict"
                 /\ DOMAIN Mp.out.items = DOMAIN Mp.items
                 /\ \A k \in DOMAIN Mp.items : Mp.out.items[k] = Mp.items[k]

C16_Witness ==
    /\ Mp.pc = "done"
    /\ DOMAIN Mp.items = {<<>>, <<65>>, <<0, 65536>>}
    /\ Mp.items[<<65>>] = 2
    /\ Mp.next = 3
    /\ Mp.out.kind = "dict"
    /\ Mp.out.items[<<65>>] = 2

\* a == b is the result of equals on the embedded objects, whatever the
\* host objects are, and equal embedded objects give equal hashes
EqDelegates ==
    /\ (Eq.eq = 1) <=> Equals(Eq.a.ref, Eq.b.ref)
    /\ Equals(Eq.a.ref, Eq.b.ref) => Eq.hash_a = Eq.hash_b

\* C17 as stated: a == b is the result of the embedded equals, hash(a) is
\* the embedded object's hashCode, and two distinct wrappers of equal
\* embedded objects compare equal and hash equal.
C17_EqHash_Original ==
    Eq.pc = "done" =>
        /\ EqDelegates
        /\ Eq.hash_a = HashCode(Eq.a.ref)

\* C17 (amended): a == b is the result of the embedded equals and hash(a) is
\* a function of the embedded hashCode alone: the hashCode itself, except
\* that a hashCode of -1 is reported as -2; two distinct wrappers of equal
\* embedded objects compare equal and hash equal.
C17_EqHash ==
    Eq.pc = "done" =>
        /\ EqDelegates
        /\ HashCode(Eq.a.ref) # 0 - 1 => Eq.hash_a = HashCode(Eq.a.ref)
        /\ HashCode(Eq.a.ref) = 0 - 1 => Eq.hash_a = 0 - 2

C17_Witness ==
    /\ Eq.pc = "done"
    /\ Eq.a.py # Eq.b.py
    /\ Eq.a.ref.id # Eq.b.ref.id
    /\ Equals(Eq.a.ref, Eq.b.ref)
    /\ Eq.eq = 1
    /\ Eq.hash_a = 2147483647
    /\ Eq.hash_b = 2147483647

\* the documented file name of each supported platform
DocumentedLibrary(platform) ==
    CASE platform = "win32" -> "kson.dll"
      [] platform = "darwin" -> "libkson.dylib"
      [] platform = "linux" -> "libkson.so"

\* C18: library resolution maps win32 to kson.dll, darwin to libkson.dylib
\* and linux to libkson.so, at import and in the build backend; for any
\* other platform it raises RuntimeError 'Unsupported platform: <platform>'
\* before any library is loaded and never falls back to a default name.
C18_LibraryResolution ==
    Ld.pc \in {"dlopen", "jvm", "done"} =>
        IF Ld.platform \in {"win32", "darwin", "linux"}
          THEN /\ Ld.out.kind # "raise"
                     => Ld.lib_name = DocumentedLibrary(Ld.platform)
               /\ Ld.lib \in {None, DocumentedLibrary(Ld.platform)}
               /\ (Ld.where = "build" /\ Ld.pc = "done")
                     => Ld.out = [kind |-> "str",
                                  s |-> DocumentedLibrary(Ld.platform)]
          ELSE /\ Ld.pc = "done"
               /\ Ld.lib_name = None
               /\ Ld.lib = None
               /\ Ld.header
                     => Ld.out = Raised(<<"RuntimeError",
                                          "Unsupported platform: ", Ld.platform>>)

C18_Witness ==
    /\ Ld.pc = "done"
    /\ Ld.where = "import"
    /\ Ld.platform = "freebsd"
    /\ Ld.file
    /\ Ld.lib = None
    /\ Ld.out = Raised(<<"RuntimeError", "Unsupported platform: ", "freebsd">>)

\* C19: once the embedded runtime has been destroyed, every further bridge
\* operation, including the finalizer-driven release of a still pinned
\* reference, is rejected with an error instead of calling into the
\* destroyed runtime, and the runtime handle is the last bridge resource to
\* be destroyed.
C19_RuntimeLast ==
    /\ Td.afterDestroy = {}
    /\ Td.jvm = "destroyed" => (Td.pinned = {} /\ Td.pc = "collect")

\* a step that leaves the scopes of thread u alone is no step of u: it
\* changes neither u's token nor u's attachment
ThIsolated ==
    \A u \in TIds :
        Th'.scopes[u] = Th.scopes[u]
            => /\ Th'.tls[u] = Th.tls[u]
               /\ Th'.attached[u] = Th.attached[u]
               /\ Th'.open[u] = Th.open[u]

\* the attaches of t not yet followed by their detach are those of the
\* scopes of t that attached and have not detached
ThMatched ==
    \A t \in TIds :
        Th.open[t] = Cardinality({i \in 1..Len(Th.scopes[t]) :
                                    /\ Th.scopes[t][i].att
                                    /\ Th.scopes[t][i].pc # "clear"})

\* C20: attachment bookkeeping is per thread: with two threads running
\* bridge operations concurrently, an attach or detach by one thread never
\* changes the other thread's cached token or another scope's decision to
\* detach, and every thread completes all of its operations with each
\* attach of a scope matched by exactly one detach on that same thread.
C20_PerThread ==
    /\ [][ThIsolated]_<<vars, side>>
    /\ []ThMatched
    /\ \A t \in TIds : <>(Th.ops[t] = MaxOps /\ Th.scopes[t] = <<>>
                              /\ Th.open[t] = 0)

C20_Witness ==
    /\ Th.scopes["main"] # <<>>
    /\ ThTop("main").pc = "body"
    /\ ThTop("main").should_detach
    /\ Th.scopes["worker"] # <<>>
    /\ ThTop("worker").pc = "clear"
    /\ Th.tls["main"]
    /\ Th.tls["worker"]
    /\ Th.attached["main"]
    /\ ~Th.attached["worker"]

\* C21: a pinned reference that is the receiver or an argument of a native
\* call in flight on any thread is not released before that call returns,
\* whatever other threads or finalizers do meanwhile, including arguments
\* converted on the fly that no host wrapper owns.
C21_InFlightPinned ==
    \A t \in TIds :
        Fl.calls[t].pc \in {"call", "native"} =>
            \A r \in {Fl.calls[t].recv} \cup Fl.calls[t].args : Fl.live[r]

C21_Witness ==
    /\ Fl.calls["main"].pc = "native"
    /\ Fl.host[Fl.calls["main"].recv] = 0
    /\ \E r \in Fl.calls["main"].args : Fl.host[r] = 0 /\ Fl.live[r]
    /\ Fl.calls["worker"].pc = "native"
    /\ Fl.calls["worker"].recv = Fl.calls["main"].recv

\* C22: when an object-returning call yields a null reference and the
\* declared return type is not optional, the operation raises: the host
\* program never comes to hold a wrapper around a null reference.
C22_NullResultRaises ==
    \A c \in CdIds : host[c] > 0 => cd[c] # NullPtr

\* the conversion calls that the argument list has made so far
WrConversions ==
    SelectSeq(Wr.log, LAMBDA e : e \in {"_python_str_to_java_string",
                                         "_to_kotlin_enum"})

\* the parameters evaluated so far that were given a value to convert
WrConverted ==
    {i \in 1..Len(Wr.args) :
        /\ Operations[Wr.op].params[i].type \in {"str", "enum"}
        /\ Wr.values[i] # PyNone}

\* C23: optional values map to null in both directions: None for an
\* optional parameter is handed over as a null reference with no conversion
\* call, and a null reference returned for an optional result is returned
\* as None without being dispatched or converted.
C23_OptionalNull ==
    /\ Wr.pc # "idle" =>
         /\ \A i \in 1..Len(Wr.args) :
              (Operations[Wr.op].params[i].optional /\ Wr.values[i] = PyNone)
                  => Wr.args[i] = NullPtr
         /\ Len(WrConversions) = Cardinality(WrConverted)
    /\ (Wr.pc = "done" /\ Operations[Wr.op].optional /\ ~Wr.thrown
            /\ Wr.res = NullPtr) =>
         /\ Wr.out = ReturnedNone
         /\ Wr.log[Len(Wr.log)] = "_call_method"

C23_Witness ==
    \/ /\ Wr.pc = "done"
       /\ Wr.op = "EmbedRule.__init__"
       /\ Wr.values[2] = PyNone
       /\ Wr.args = <<Wr.values[1], NullPtr>>
       /\ Wr.out.kind = "wrapper"
    \/ /\ Wr.pc = "done"
       /\ Wr.op = "Analysis.kson_value"
       /\ Wr.log = <<"_call_method">>
       /\ Wr.out = ReturnedNone

\* a required parameter was given None
WrRequiredNone ==
    \E i \in 1..Len(Wr.values) :
        ~Operations[Wr.op].params[i].optional /\ Wr.values[i] = PyNone

\* C24: None for a required parameter of a wrapper constructor or Kson
\* operation raises ValueError before any interaction with the embedded
\* runtime: nothing is attached, converted, created or pinned.
C24_RequiredNone ==
    (Wr.pc # "idle" /\ WrRequiredNone) =>
        /\ Wr.log = <<>>
        /\ Wr.args = <<>>
        /\ Wr.pc \in {"check", "done"}
        /\ Wr.pc = "done" =>
             /\ Wr.out.kind = "raise"
             /\ Wr.out.err[1] = ValueError

C24_Witness ==
    /\ Wr.pc = "done"
    /\ Wr.op = "Kson.format"
    /\ Wr.values[1] # PyNone
    /\ Wr.values[2] = PyNone
    /\ Wr.out = Raised(<<ValueError, "format_options">>)
    /\ Wr.log = <<>>

\* the platform has a native library, and that library and the header
\* were, or are now, in src/kson
BeSupported == Be.platform \in DOMAIN PLATFORM_NATIVE_LIBRARIES

BePresent(tree) ==
    /\ BeSupported
    /\ PLATFORM_NATIVE_LIBRARIES[Be.platform] \in tree.files
    /\ "jni_simplified.h" \in tree.files

\* C25: when the platform's library and jni_simplified.h are both present
\* in src/kson at the start, no Gradle build is run and neither src nor
\* kson-sdist is changed, even if kson-sdist exists.
C25_NoBuildWhenPresent ==
    BePresent(Be.src0) =>
        /\ Be.runs = 0
        /\ Be.src = Be.src0
        /\ Be.sdist = Be.sdist0
        /\ Be.pc \in {"done", "wheel"} => Be.out = ReturnedNone

C25_Witness ==
    /\ Be.pc = "done"
    /\ BePresent(Be.src0)
    /\ Be.sdist0.exists
    /\ Be.sdist0.src # {}
    /\ Be.sdist.exists
    /\ Be.out = ReturnedNone

\* C26: the decision to build looks at the current platform's artifacts
\* only: when kson-sdist exists and the platform's library or the header is
\* missing from src/kson, Gradle is invoked exactly once, whatever other
\* platforms' libraries are there; otherwise it is not invoked.
C26_BuildDecision ==
    /\ Be.runs <= 1
    /\ (BeSupported /\ Be.pc \notin {"start", "gradle"}) =>
         (Be.runs = 1 <=> (Be.sdist0.exists /\ ~BePresent(Be.src0)))

C26_Witness ==
    /\ Be.pc = "done"
    /\ Be.platform = "linux"
    /\ Be.src0.files = {"kson.dll", "libkson.dylib", "jni_simplified.h"}
    /\ Be.runs = 1

C28_MissingNoSdist ==
    (BeSupported /\ ~BePresent(Be.src0) /\ ~Be.sdist0.exists) =>
        /\ Be.runs = 0
        /\ Be.src = Be.src0
        /\ Be.pc # "wheel"
        /\ Be.pc = "done" =>
             /\ Be.out.kind = "raise"
             /\ Be.out.err[2] = "Required native artifacts missing for "
             /\ \A f \in {PLATFORM_NATIVE_LIBRARIES[Be.platform],
                           "jni_simplified.h"} :
                  (f \notin Be.src0.files) <=>
                      (\E i \in 1..Len(Be.out.err[4]) : Be.out.err[4][i] = f)

C28_Witness ==
    /\ Be.pc = "done"
    /\ ~Be.sdist0.exists
    /\ Be.platform = "darwin"
    /\ Be.src0.files = {"libkson.so", "jni_simplified.h"}
    /\ Be.out = RequiredMissing("darwin", <<"libkson.dylib">>)

\* C29: after a successful Gradle build with kson-sdist/lib-python/src
\* present, src is a copy of that tree, src/kson/_marker.c holds the bytes it
\* held before the build if it existed (even if the copied tree has a
\* _marker.c of its own), and kson-sdist no longer exists.
C29_ReplacedSrc ==
    (Be.code = {0} /\ Be.sdist1.src # {} /\ Be.pc \in {"post", "done", "wheel"}) =>
        \A built \in Be.sdist1.src :
            /\ Be.src.files = built.files
            /\ Be.src.init = built.init
            /\ Be.src.marker = IF Be.src0.marker # {} THEN Be.src0.marker
                               ELSE built.marker
            /\ ~Be.sdist.exists

C29_Witness ==
    /\ Be.pc = "done"
    /\ Be.code = {0}
    /\ Be.src0.marker = {""}
    /\ \E built \in Be.sdist1.src : built.marker = {"/* platform marker */"}
    /\ Be.src.init = "# built"
    /\ Be.src.marker = {""}

\* C30: whenever _ensure_native_artifacts returns without raising, from any
\* starting state and with any Gradle outcome, the platform's library and
\* jni_simplified.h both exist in src/kson, and build_wheel never builds a
\* wheel without them.
C30_PostCondition ==
    /\ (Be.pc \in {"done", "wheel"} /\ Be.out = ReturnedNone) => BePresent(Be.src)
    /\ \A tree \in Be.wheel : BePresent(tree)
    /\ Be.pc = "wheel" => Be.out = ReturnedNone

C30_Witness ==
    /\ Be.pc = "wheel"
    /\ Be.code = {0}
    /\ ~BePresent(Be.src0)
    /\ \E tree \in Be.wheel : tree = Be.src /\ BePresent(tree)

\* C31: whenever build_wheel reaches the underlying wheel build, the
\* kson-sdist directory no longer exists.
C31_SdistGoneAtWheel ==
    Be.pc = "wheel" => ~Be.sdist.exists

\* C32: the token made by a thread's first bridge call stays cached, so a
\* later top-level bridge call of the thread (a wrapper method or a
\* conversion of a result that an earlier call returned) enters its scope
\* with the token set and makes no AttachCurrentThread call.
C32_TokenReused ==
    \A t \in Threads :
        (/\ stack[t] # <<>>
         /\ stack[t][1].fn \in {"call", "j2p", "clsname"}
         /\ stack[t][1].entered) =>
            /\ stack[t][1].tok0 # EnvNone
            /\ stack[t][1].na = 0

\* the body of the frame's scope raised: the invoked member threw or a
\* class, method or field was not found
BodyRaised(f) == f.thrown \/ f.missing

\* C33: the attachment is released on every exit path.  When the body of an
\* outermost scope has raised, the scope has called DetachCurrentThread once
\* and the token is cleared when the error reaches the caller; when the body
\* of a nested scope has raised, that scope has made no detach call and the
\* token is still the one cached by the enclosing scope.
C33_ReleasedOnError ==
    \A <<t, i>> \in Frames :
        LET f == stack[t][i] IN
        (i = Len(stack[t]) /\ f.pc = "ret" /\ f.entered /\ BodyRaised(f)) =>
            IF f.sd
            THEN f.nd = 1 /\ tls[t] = EnvNone
            ELSE f.nd = 0 /\ f.tok0 # EnvNone /\ tls[t] = f.tok0

\* C34: whenever no attachment scope is active on a thread, the thread's
\* cached token is unset, on every exit path of the outermost scope.
C34_NoTokenOutsideScope ==
    \A t \in Threads : stack[t] = <<>> => tls[t] = EnvNone

\* C35: a release finalizer that runs while its thread is partway through
\* __enter__ (attached, token not yet cached) or __exit__ (detached, token
\* not yet cleared) of a scope makes no DetachCurrentThread call, which
\* would take the attachment from the scope it interrupted, and is on an
\* attached thread with a live env when it calls DeleteGlobalRef.
C35_FinalizerInWindow ==
    \A <<t, i>> \in Frames :
        LET f == stack[t][i] IN
        (i > 1 /\ f.fn = "fin" /\ stack[t][i - 1].pc \in {"cache", "clear"}) =>
            /\ f.nd = 0
            /\ f.pc = "del" => (attached[t] /\ f.env = EnvLive)

\* the host string holds a character that has no UTF-16 encoding
Unencodable(s) == \E i \in 1..Len(s) : s[i] \in 55296..57343

\* C37: a host string that cannot be re-encoded as 16-bit code units is
\* rejected with an encoding error before the thread is attached and
\* before an embedded string is created: no call is made to the embedded
\* runtime, nothing is pinned and the attachment state is unchanged.
C37_EncodingRejected ==
    (St.pc # "idle" /\ Unencodable(St.s)) =>
        /\ St.log = <<>>
        /\ St.jstr = <<>>
        /\ St.pc \in {"encode", "done"}
        /\ St.pc = "done" => St.out = Raised(UnicodeError)

C37_Witness ==
    /\ St.pc = "done"
    /\ St.s = <<65, 55296>>
    /\ St.out = Raised(UnicodeError)
    /\ St.log = <<>>

\* C36: in _java_string_to_python_str every successful GetStringChars is
\* followed by exactly one ReleaseStringChars before the function returns
\* or raises, also when the decoding fails.
C36_CharsReleased ==
    Jp.pc = "done" => Jp.released = Jp.got

\* C38: in the Kotlin/Native binding, on a platform that is not in
\* LIBRARY_NAMES the import fails with a descriptive error before a library
\* is opened and before a symbol of it is looked up or called.
C38_NativeUnsupported ==
    (Kn.pc # "idle" /\ Kn.platform \notin {"win32", "darwin", "linux"}) =>
        /\ Kn.opened = {}
        /\ Kn.looked = {}
        /\ Kn.pc \in {"dlopen", "done"}
        /\ Kn.pc = "done" => Kn.out = UnsupportedPlatform(Kn.platform)

\* C39: in the Kotlin/Native binding every stable pointer returned by a
\* call is disposed exactly once: for each pointer handed out, one
\* DisposeStablePointer call has been made or is registered, never two and
\* never none.
C39_DisposedOnce ==
    Kn.pc # "idle" =>
        \A p \in 1..Kn.alloc : Kn.regs[p] + Kn.disp[p] = 1

====
